---- MODULE Spec2Model ----
(***************************************************************************)
(* Model of the ETF distribution-schedule extractors:                      *)
(*   SPDR_ETF_cfg.py    (month-row / footer dialect, segment locator)      *)
(*   VanguardETF_cfg.py (column-position dialect, holiday-aware calendar)  *)
(*   VanguardETF_arg.py (column-position dialect, command-line variant)    *)
(*   iShareETF_arg.py   (label-block dialect)                              *)
(* Text is kept as strings; every matcher works on the characters.         *)
(***************************************************************************)
EXTENDS Integers, Sequences, FiniteSets, TLC

VARIABLES
    fn,       \* pure-function harness: which function is applied
    arg,      \* its argument (a token)
    ret,      \* its outcome: [st |-> "none" | "ok" | "ValueError", val |-> string]
    script,   \* pipeline harness: which script runs
    cfg,      \* the script's configuration flags
    lines,    \* the text of the document, one string per line
    tickers,  \* the tickers of the run, in processing order
    ti,       \* number of tickers the run has processed
    pc,       \* position of the run: "start", "loop", "done", "crashed"
    result,   \* outcome of the last per-ticker extraction
    files,    \* the output files written so far: name -> content
    log,      \* diagnostics reported so far
    uids,     \* number of uuid4() values drawn so far
    workers   \* one-worker-per-ticker runs: each worker's ticker, position, rows and files written

vars == <<fn, arg, ret, script, cfg, lines, tickers, ti, pc, result, files, log, uids, workers>>
fnVars == <<fn, arg, ret>>
runVars == <<script, cfg, lines, tickers, ti, pc, result, files, log, uids, workers>>

(***************************************************************************)
(* Characters and strings                                                  *)
(***************************************************************************)
DigitChars == "0123456789"
UpperChars == "ABCDEFGHIJKLMNOPQRSTUVWXYZ"
LowerChars == "abcdefghijklmnopqrstuvwxyz"

CharAt(s, i) == SubSeq(s, i, i)
CharSet(s) == {CharAt(s, i) : i \in 1..Len(s)}

DigitSet == CharSet(DigitChars)
UpperSet == CharSet(UpperChars)
LowerSet == CharSet(LowerChars)
AlphaSet == UpperSet \cup LowerSet
WordSet == DigitSet \cup AlphaSet \cup {"_"}
SpaceSet == {" ", "\t"}

IsDigit(c) == c \in DigitSet
IsAlpha(c) == c \in AlphaSet
IsSpace(c) == c \in SpaceSet
\* \w of the re module (ASCII part)
IsWordChar(c) == c \in WordSet

AllDigits(s) == \A i \in 1..Len(s) : IsDigit(CharAt(s, i))

IndexIn(c, s) == CHOOSE i \in 1..Len(s) : CharAt(s, i) = c

\* str.upper() / str.lower() on one character
UpperOf == [c \in LowerSet |-> CharAt(UpperChars, IndexIn(c, LowerChars))]
LowerOf == [c \in UpperSet |-> CharAt(LowerChars, IndexIn(c, UpperChars))]
UpperChar(c) == IF c \in LowerSet THEN UpperOf[c] ELSE c
LowerChar(c) == IF c \in UpperSet THEN LowerOf[c] ELSE c

\* str.upper()
RECURSIVE UpperStr(_)
UpperStr(s) == IF Len(s) = 0 THEN "" ELSE UpperChar(CharAt(s, 1)) \o UpperStr(SubSeq(s, 2, Len(s)))

\* str.lower()
RECURSIVE LowerStr(_)
LowerStr(s) == IF Len(s) = 0 THEN "" ELSE LowerChar(CharAt(s, 1)) \o LowerStr(SubSeq(s, 2, Len(s)))

\* str.replace(" ", "_")
RECURSIVE Underscored(_)
Underscored(s) ==
    IF Len(s) = 0 THEN ""
    ELSE (IF CharAt(s, 1) = " " THEN "_" ELSE CharAt(s, 1)) \o Underscored(SubSeq(s, 2, Len(s)))

\* str.startswith
StartsWith(s, p) == Len(s) >= Len(p) /\ SubSeq(s, 1, Len(p)) = p

\* p occurs in s at position i
OccursAt(s, p, i) == i >= 1 /\ i + Len(p) - 1 <= Len(s) /\ SubSeq(s, i, i + Len(p) - 1) = p

Occurrences(s, p) == {i \in 1..Len(s) : OccursAt(s, p, i)}

SetMax(S) == CHOOSE x \in S : \A y \in S : y <= x
SetMin(S) == CHOOSE x \in S : \A y \in S : x <= y

\* str.rfind, 1-based; 0 when absent
RFind(s, p) == IF Occurrences(s, p) = {} THEN 0 ELSE SetMax(Occurrences(s, p))

\* int() of a string of ASCII digits
DigitValOf == [c \in DigitSet |-> IndexIn(c, DigitChars) - 1]
DigitVal(c) == DigitValOf[c]

RECURSIVE ToInt(_)
ToInt(s) == IF Len(s) = 0 THEN 0 ELSE 10 * ToInt(SubSeq(s, 1, Len(s) - 1)) + DigitVal(CharAt(s, Len(s)))

\* str() of a natural number
RECURSIVE ToStr(_)
ToStr(n) == IF n < 10 THEN CharAt(DigitChars, n + 1) ELSE ToStr(n \div 10) \o CharAt(DigitChars, (n % 10) + 1)

\* zero-padded to width 2 (%m, %d of strftime) and 4 (%Y)
Pad2(n) == IF n < 10 THEN "0" \o ToStr(n) ELSE ToStr(n)
Pad4(n) == IF n < 10 THEN "000" \o ToStr(n) ELSE IF n < 100 THEN "00" \o ToStr(n) ELSE IF n < 1000 THEN "0" \o ToStr(n) ELSE ToStr(n)

\* the first position >= i of s holding a character in (stop = TRUE) or
\* not in (stop = FALSE) the set cs; Len(s) + 1 when there is none
RECURSIVE Seek(_, _, _, _)
Seek(s, i, cs, stop) ==
    IF i > Len(s) THEN Len(s) + 1
    ELSE IF (CharAt(s, i) \in cs) = stop THEN i
    ELSE Seek(s, i + 1, cs, stop)

\* str.split(): the maximal runs of non-whitespace characters
RECURSIVE SplitFrom(_, _)
SplitFrom(s, i) ==
    LET b == Seek(s, i, SpaceSet, FALSE)
        e == Seek(s, b, SpaceSet, TRUE)
    IN IF b > Len(s) THEN <<>> ELSE <<SubSeq(s, b, e - 1)>> \o SplitFrom(s, e)

Split(s) == SplitFrom(s, 1)

\* the fields of s between the separator characters seps, empty ones kept
RECURSIVE FieldsFrom(_, _, _)
FieldsFrom(s, seps, i) ==
    LET e == Seek(s, i, seps, TRUE)
    IN IF e > Len(s) THEN <<SubSeq(s, i, Len(s))>>
       ELSE <<SubSeq(s, i, e - 1)>> \o FieldsFrom(s, seps, e + 1)

\* re.split(r"[/-]", s)
SplitSep(s) == FieldsFrom(s, {"/", "-"}, 1)

\* str.split(c) on one separator character
SplitChar(s, c) == FieldsFrom(s, {c}, 1)

\* " ".join(seq)
RECURSIVE JoinSp(_)
JoinSp(seq) ==
    IF Len(seq) = 0 THEN ""
    ELSE IF Len(seq) = 1 THEN seq[1]
    ELSE seq[1] \o " " \o JoinSp(Tail(seq))

(***************************************************************************)
(* The documents of the model: sequences of lines drawn from small pools   *)
(***************************************************************************)
Docs(pool, n) == UNION {[1..k -> pool] : k \in 0..n}

\* Vanguard (column-position dialect)
VgLinePool ==
    {"VOO 3/20/25 3/21/25 4/15/25",
     "6/20/25 6/23/25 7/15/25",
     "9/19/25 TBD 10/15/25",
     "VOO is an ETF",
     "",
     "voo 13/45/25 2025-12-22 2/30/2025",
     "XVOO VOOX 3/20/25 3/21/25 4/15/25",
     "VPLS 3/20/25 3/21/25 4/15/25",
     "12/19/25 12/22/25"}
MaxVgLines == 3

\* SPDR (month-row / footer dialect)
HeaderLine == "Ex Date Record Date Payable Date"
FooterLine == "Potential Excise Distribution 12/29/2025 12/30/2025 1/5/2026"

\* the lines of the documents of the segment-locator runs
LocatePool == {HeaderLine, "SPY", FooterLine, "SPYX XSPY"}
MaxLocateLines == 5

\* the lines of the documents of the whole-pipeline runs
SpdrLinePool ==
    {HeaderLine, "SPY", "BIL", FooterLine,
     "March 3/14/2025 2/30/2025 13/1/2025",
     "May 5/35/2025 5/6/2025 5/7/2025"}
MaxSpdrLines == 4

\* the lines of the documents of the schedule runs: month rows out of calendar
\* order, and lines that are no row (a month name inside a word, a row cut short)
SchedulePool ==
    {HeaderLine, "SPY", FooterLine,
     "June 6/2/2025 6/3/2025 6/5/2025",
     "March 3/14/2025 3/17/2025 3/20/2025",
     "Maybe 5/1/2025 5/2/2025 5/5/2025",
     "March 3/14/2025"}
MaxScheduleLines == 5

SpdrLines == LocatePool \cup SpdrLinePool \cup SchedulePool

\* the whitespace-separated tokens of the Vanguard lines
VgTokens == UNION {{Split(l)[k] : k \in 1..Len(Split(l))} : l \in VgLinePool}

(***************************************************************************)
(* Calendar dates (datetime) : records [y, m, d]                           *)
(***************************************************************************)
IsLeap(y) == (y % 4 = 0 /\ y % 100 # 0) \/ y % 400 = 0

DaysInMonth(y, m) ==
    IF m = 2 THEN (IF IsLeap(y) THEN 29 ELSE 28)
    ELSE IF m \in {4, 6, 9, 11} THEN 30 ELSE 31

ValidDate(y, m, d) == y \in 1..9999 /\ m \in 1..12 /\ d \in 1..DaysInMonth(y, m)

Date(y, m, d) == [y |-> y, m |-> m, d |-> d]

RECURSIVE DaysBeforeMonth(_, _)
DaysBeforeMonth(y, m) == IF m = 1 THEN 0 ELSE DaysBeforeMonth(y, m - 1) + DaysInMonth(y, m - 1)

\* date.toordinal()
Ordinal(dt) ==
    LET p == dt.y - 1
    IN p * 365 + (p \div 4) - (p \div 100) + (p \div 400) + DaysBeforeMonth(dt.y, dt.m) + dt.d

\* date.weekday(): Monday = 0 .. Sunday = 6
Weekday(dt) == (Ordinal(dt) + 6) % 7

PrevDay(dt) ==
    IF dt.d > 1 THEN Date(dt.y, dt.m, dt.d - 1)
    ELSE IF dt.m > 1 THEN Date(dt.y, dt.m - 1, DaysInMonth(dt.y, dt.m - 1))
    ELSE Date(dt.y - 1, 12, 31)

NextDay(dt) ==
    IF dt.d < DaysInMonth(dt.y, dt.m) THEN Date(dt.y, dt.m, dt.d + 1)
    ELSE IF dt.m < 12 THEN Date(dt.y, dt.m + 1, 1)
    ELSE Date(dt.y + 1, 1, 1)

\* dt + timedelta(days=n)
RECURSIVE AddDays(_, _)
AddDays(dt, n) ==
    IF n = 0 THEN dt
    ELSE IF n > 0 THEN AddDays(NextDay(dt), n - 1)
    ELSE AddDays(PrevDay(dt), n + 1)

(***************************************************************************)
(* Business-day calendar.  USFederalHolidayCalendar: the fixed-date        *)
(* holidays observed on the nearest workday, the Monday/Thursday holidays  *)
(* on their n-th weekday; holidays() spans 1970-01-01 .. 2200-12-31.       *)
(***************************************************************************)
\* observance=nearest_workday: Saturday -> Friday, Sunday -> Monday
NearestWorkday(dt) ==
    IF Weekday(dt) = 5 THEN PrevDay(dt)
    ELSE IF Weekday(dt) = 6 THEN NextDay(dt)
    ELSE dt

\* New Year's Day, Juneteenth (from 2021), Independence Day, Veterans Day, Christmas
FixedHolidays(y) ==
    {Date(y, 1, 1), Date(y, 7, 4), Date(y, 11, 11), Date(y, 12, 25)}
        \cup (IF y >= 2021 THEN {Date(y, 6, 19)} ELSE {})

\* the n-th weekday w of month m
IsNthWeekday(dt, m, w, n) == dt.m = m /\ Weekday(dt) = w /\ (dt.d - 1) \div 7 = n - 1

IsHoliday(dt) ==
    /\ dt.y \in 1970..2200
    /\ \/ \E yy \in {dt.y, dt.y + 1} : \E h \in FixedHolidays(yy) :
              yy <= 2200 /\ NearestWorkday(h) = dt
       \/ (dt.y >= 1986 /\ IsNthWeekday(dt, 1, 0, 3))             \* Martin Luther King Jr.
       \/ IsNthWeekday(dt, 2, 0, 3)                              \* Presidents' Day
       \/ (dt.m = 5 /\ Weekday(dt) = 0 /\ dt.d + 7 > 31)         \* Memorial Day
       \/ IsNthWeekday(dt, 9, 0, 1)                              \* Labor Day
       \/ IsNthWeekday(dt, 10, 0, 2)                             \* Columbus Day
       \/ IsNthWeekday(dt, 11, 3, 4)                             \* Thanksgiving

IsWeekend(dt) == Weekday(dt) >= 5

\* a day of the CustomBusinessDay calendar
IsBusinessDay(dt) == ~IsWeekend(dt) /\ ~IsHoliday(dt)

RECURSIVE RollForward(_)
RollForward(dt) == IF IsBusinessDay(dt) THEN dt ELSE RollForward(NextDay(dt))

RECURSIVE RollBackward(_)
RollBackward(dt) == IF IsBusinessDay(dt) THEN dt ELSE RollBackward(PrevDay(dt))

\* d - CustomBusinessDay(calendar=USFederalHolidayCalendar()):
\* busday_offset(d, -1, roll="forward"): roll d forward onto a business day,
\* then move one business day back
MinusCustomBusinessDay(dt) == RollBackward(PrevDay(RollForward(dt)))

\* d - BDay(1): BusinessDay._apply with n = -1, weekends only
MinusBDay(dt) ==
    LET n0 == -1
        wday == Weekday(dt)
        weeks == n0 \div 5
        n1 == IF n0 <= 0 /\ wday > 4 THEN n0 + 1 ELSE n0
        n == n1 - 5 * weeks
        days == IF n = 0 /\ wday > 4 THEN 4 - wday
                ELSE IF wday > 4 THEN (7 - wday) + (n - 1)
                ELSE IF wday + n <= 4 THEN n
                ELSE n + 2
    IN AddDays(dt, 7 * weeks + days)

(***************************************************************************)
(* datetime.strptime / strftime                                            *)
(***************************************************************************)
NoDate == [ok |-> FALSE, dt |-> Date(0, 0, 0)]

\* a %m or %d field between separators: one or two digits, value in lo..hi
StrpField(f, lo, hi) == Len(f) \in {1, 2} /\ AllDigits(f) /\ ToInt(f) \in lo..hi

\* %y: 00..68 -> 2000.., 69..99 -> 1900..
PivotYear(yy) == IF yy <= 68 THEN 2000 + yy ELSE 1900 + yy

\* strptime(s, "%m/%d/%Y") when ylen = 4, strptime(s, "%m/%d/%y") when ylen = 2
Strptime(s, ylen) ==
    LET f == SplitChar(s, "/")
    IN IF /\ Len(f) = 3
          /\ StrpField(f[1], 1, 12)
          /\ StrpField(f[2], 1, 31)
          /\ Len(f[3]) = ylen /\ AllDigits(f[3])
       THEN LET y == IF ylen = 2 THEN PivotYear(ToInt(f[3])) ELSE ToInt(f[3])
            IN IF ValidDate(y, ToInt(f[1]), ToInt(f[2]))
               THEN [ok |-> TRUE, dt |-> Date(y, ToInt(f[1]), ToInt(f[2]))]
               ELSE NoDate
       ELSE NoDate

\* strftime("%m/%d/%Y")
StrfMDY(dt) == Pad2(dt.m) \o "/" \o Pad2(dt.d) \o "/" \o Pad4(dt.y)

\* f"{prev.month}/{prev.day}/{str(prev.year)[2:]}"
FmtShort(dt) ==
    LET ys == ToStr(dt.y)
    IN ToStr(dt.m) \o "/" \o ToStr(dt.d) \o "/" \o SubSeq(ys, 3, Len(ys))

Ok(v) == [st |-> "ok", val |-> v]
Raise(e) == [st |-> e, val |-> ""]
NoRet == [st |-> "none", val |-> ""]

\* SPDR_ETF_cfg.get_business_day_before
get_business_day_before(date_str) ==
    LET d == Strptime(date_str, 4)
    IN IF d.ok THEN Ok(StrfMDY(MinusCustomBusinessDay(d.dt))) ELSE Raise("ValueError")

(***************************************************************************)
(* Vanguard date normalizer                                                *)
(***************************************************************************)
\* int(s) for a token field: optional sign "+", digits, single "_" between digits
PyIntOk(s) ==
    LET b == IF Len(s) > 0 /\ CharAt(s, 1) = "+" THEN SubSeq(s, 2, Len(s)) ELSE s
    IN /\ Len(b) > 0
       /\ \A i \in 1..Len(b) :
            \/ IsDigit(CharAt(b, i))
            \/ /\ CharAt(b, i) = "_"
               /\ i > 1 /\ i < Len(b)
               /\ IsDigit(CharAt(b, i - 1)) /\ IsDigit(CharAt(b, i + 1))

RECURSIVE DigitsOf(_)
DigitsOf(s) ==
    IF Len(s) = 0 THEN ""
    ELSE (IF IsDigit(CharAt(s, 1)) THEN CharAt(s, 1) ELSE "") \o DigitsOf(SubSeq(s, 2, Len(s)))

PyInt(s) == ToInt(DigitsOf(s))

\* a DATE_PATTERN that takes 4-digit years only: the M/D/YY output is no longer a token
DatePatternLongYear(f) ==
    /\ Len(f) = 3
    /\ Len(f[1]) \in {1, 2} /\ AllDigits(f[1])
    /\ Len(f[2]) \in {1, 2} /\ AllDigits(f[2])
    /\ Len(f[3]) = 4 /\ AllDigits(f[3])

\* the groups (\d{1,2}) (\d{1,2}) (\d{2}(?:\d{2})?) on the fields between separators
DatePatternFields(f) ==
    /\ Len(f) = 3
    /\ Len(f[1]) \in {1, 2} /\ AllDigits(f[1])
    /\ Len(f[2]) \in {1, 2} /\ AllDigits(f[2])
    /\ Len(f[3]) \in {2, 4} /\ AllDigits(f[3])

\* DATE_PATTERN.match: ^(\d{1,2})[/-](\d{1,2})[/-](\d{2}(?:\d{2})?)$
DATE_PATTERN(s) == DatePatternFields(SplitSep(s))

\* f"{int(month)}/{int(day)}/{year[-2:]}"
NormalizedFields(month, day, year) ==
    IF ~PyIntOk(month) \/ ~PyIntOk(day) THEN Raise("ValueError")
    ELSE Ok(ToStr(PyInt(month)) \o "/" \o ToStr(PyInt(day)) \o "/" \o SubSeq(year, Len(year) - 1, Len(year)))

\* the month-first branch when DATE_PATTERN matched, else the year-first branch
NormalizeParts(f, matched) ==
    IF matched THEN NormalizedFields(f[1], f[2], f[3])
    ELSE IF Len(f) = 3 /\ Len(f[1]) = 4 THEN NormalizedFields(f[2], f[3], f[1])
    ELSE Raise("ValueError")

\* normalize_date (the same text in VanguardETF_cfg.py and VanguardETF_arg.py)
normalize_date(dt_str) == NormalizeParts(SplitSep(dt_str), DATE_PATTERN(dt_str))

\* normalize_date and str.split on the tokens and lines of the documents, evaluated once
NormalizedToken == [t \in VgTokens |-> normalize_date(t)]
Normalized(tok) == IF tok \in VgTokens THEN NormalizedToken[tok] ELSE normalize_date(tok)
SplitLine == [l \in VgLinePool |-> Split(l)]
TokensOf(line) == IF line \in VgLinePool THEN SplitLine[line] ELSE Split(line)

NormOk(tok) == Normalized(tok).st = "ok"

\* the business-day offset each Vanguard script subtracts in parse_row
MinusOffset(scr, dt) ==
    IF scr = "VanguardETF_arg" THEN MinusBDay(dt) ELSE MinusCustomBusinessDay(dt)

QuarterOf(dt) ==
    IF dt.m <= 3 THEN "Q1" ELSE IF dt.m <= 6 THEN "Q2" ELSE IF dt.m <= 9 THEN "Q3" ELSE "Q4"

NoRow == [Quarter |-> "", RecordDate |-> "", ExMinus1 |-> "", ExDate |-> "", PayableDate |-> ""]

\* the row parse_row returns once strptime has read the normalized ex-date
RowOfDates(scr, rec_norm, ex_norm, pay_norm, ex_dt) ==
    IF ~ex_dt.ok THEN [st |-> "ValueError", row |-> NoRow]
    ELSE [st |-> "ok",
          row |-> [Quarter |-> QuarterOf(ex_dt.dt),
                   RecordDate |-> rec_norm.val,
                   ExMinus1 |-> FmtShort(MinusOffset(scr, ex_dt.dt)),
                   ExDate |-> ex_norm.val,
                   PayableDate |-> pay_norm.val]]

NormalizedRow(scr, rec_norm, ex_norm, pay_norm) ==
    IF rec_norm.st # "ok" \/ ex_norm.st # "ok" \/ pay_norm.st # "ok"
    THEN [st |-> "ValueError", row |-> NoRow]
    ELSE RowOfDates(scr, rec_norm, ex_norm, pay_norm, Strptime(ex_norm.val, 2))

\* parse_row: [st, row]
parse_row(scr, rec, exd, pay) ==
    NormalizedRow(scr, Normalized(rec), Normalized(exd), Normalized(pay))

(***************************************************************************)
(* Pure-function harness: the ex-date-minus-one derivation of each script  *)
(***************************************************************************)
BaseYear == 2025
YearSpan == 1

IdleFiles == [f \in {} |-> <<>>]
NoSeg == [ticker_idx |-> 0, header_idx |-> 0, footer_idx |-> 0, segment |-> <<>>]
NoResult == [st |-> "none", rows |-> <<>>, tk |-> "", seg |-> NoSeg]
NoCfg == [name |-> "none"]

IdleRun ==
    /\ script = "none" /\ cfg = NoCfg /\ lines = <<>> /\ tickers = <<>> /\ ti = 0
    /\ pc = "idle" /\ result = NoResult /\ files = IdleFiles /\ log = <<>> /\ uids = 0
    /\ workers = <<>>

IdleFn == fn = "none" /\ arg = "" /\ ret = NoRet

ExDates ==
    {Date(y, m, d) : y \in BaseYear..(BaseYear + YearSpan), m \in 1..12, d \in 1..31}
        \cap {dt \in [y : BaseYear..(BaseYear + YearSpan), m : 1..12, d : 1..31] : ValidDate(dt.y, dt.m, dt.d)}

BizScripts == {"SPDR_ETF_cfg", "VanguardETF_cfg", "VanguardETF_arg"}

\* the ex-date token as each dialect writes it: M/D/YYYY (SPDR), M/D/YY (Vanguard)
ExToken(scr, dt) ==
    IF scr = "SPDR_ETF_cfg"
    THEN ToStr(dt.m) \o "/" \o ToStr(dt.d) \o "/" \o ToStr(dt.y)
    ELSE FmtShort(dt)

YearLen(scr) == IF scr = "SPDR_ETF_cfg" THEN 4 ELSE 2

\* the "Ex-Dividend Date-1" field of a parsed row
ExMinus1Of(r) == IF r.st = "ok" THEN Ok(r.row.ExMinus1) ELSE Raise(r.st)

\* the "Ex Date -1" / "Ex-Dividend Date-1" field a script derives from an ex-date token
ExMinusOne(scr, exd) ==
    IF scr = "SPDR_ETF_cfg" THEN get_business_day_before(exd)
    ELSE ExMinus1Of(parse_row(scr, exd, exd, exd))

InitDates ==
    /\ fn \in BizScripts
    /\ arg \in {ExToken(fn, dt) : dt \in ExDates}
    /\ ret = NoRet
    /\ IdleRun

DeriveExMinusOne ==
    /\ fn \in BizScripts
    /\ ret.st = "none"
    /\ ret' = ExMinusOne(fn, arg)
    /\ UNCHANGED <<fn, arg>>
    /\ UNCHANGED runVars

NextDates == DeriveExMinusOne

SpecDates == InitDates /\ [][NextDates]_vars

ExIn == Strptime(arg, YearLen(fn)).dt
PrevOut == Strptime(ret.val, YearLen(fn)).dt

IsPriorBusinessDay(p, ex) ==
    /\ Ordinal(p) < Ordinal(ex)
    /\ ~IsWeekend(p)
    /\ ~IsHoliday(p)
    /\ \A k \in 1..(Ordinal(ex) - Ordinal(p) - 1) : ~IsBusinessDay(AddDays(p, k))

\* C3: for every ex-date of every record of every script, the derived
\* ex-date-minus-one is strictly earlier than the ex-date, is not a Saturday
\* or Sunday, is not a holiday of the holiday calendar, and is the latest such date.
C3_ExMinusOneIsPriorBusinessDay ==
    (fn \in BizScripts /\ ret.st = "ok") => IsPriorBusinessDay(PrevOut, ExIn)

\* the same property for the two scripts that configure the holiday calendar
C3_HolidayAwareScripts ==
    (fn \in {"SPDR_ETF_cfg", "VanguardETF_cfg"} /\ ret.st = "ok") => IsPriorBusinessDay(PrevOut, ExIn)

\* VanguardETF_arg: earlier and a weekday, the latest weekday
C3_ArgSkipsWeekendsOnly ==
    (fn = "VanguardETF_arg" /\ ret.st = "ok") =>
        /\ Ordinal(PrevOut) < Ordinal(ExIn)
        /\ ~IsWeekend(PrevOut)
        /\ \A k \in 1..(Ordinal(ExIn) - Ordinal(PrevOut) - 1) : IsWeekend(AddDays(PrevOut, k))

(***************************************************************************)
(* Pure-function harness: normalize_date on tokens                         *)
(***************************************************************************)
TokenFields == {"", "1", "03", "12", "123", "25", "2025", "abcd", "+5", "1x"}
TokenSeps == {"/", "-"}

DateTokens ==
    {f1 \o s1 \o f2 \o s2 \o f3 : f1 \in TokenFields, f2 \in TokenFields, f3 \in TokenFields,
                                  s1 \in TokenSeps, s2 \in TokenSeps}
        \cup {f1 \o "/" \o f2 : f1 \in TokenFields, f2 \in TokenFields}
        \cup {f1 \o "/" \o f2 \o "/" \o "1" \o "/" \o f3 : f1 \in {"1", "2025"}, f2 \in {"1", "12"}, f3 \in {"25", "2025"}}
        \cup TokenFields

InitNormalize ==
    /\ fn = "normalize_date"
    /\ arg \in DateTokens
    /\ ret = NoRet
    /\ IdleRun

ApplyNormalize ==
    /\ fn = "normalize_date"
    /\ ret.st = "none"
    /\ ret' = normalize_date(arg)
    /\ UNCHANGED <<fn, arg>>
    /\ UNCHANGED runVars

\* normalize_date applied to the string it returned for arg
Renormalize ==
    /\ fn = "normalize_date"
    /\ ret.st = "ok"
    /\ fn' = "normalize_date twice"
    /\ ret' = normalize_date(ret.val)
    /\ UNCHANGED arg
    /\ UNCHANGED runVars

NextNormalize == ApplyNormalize \/ Renormalize

SpecNormalize == InitNormalize /\ [][NextNormalize]_vars

\* the shapes the claim recognizes: three all-digit fields, month-first
\* (1-2, 1-2, 2 or 4 digits) or year-first (first field of exactly 4 digits)
RecognizedShape(tok) ==
    LET f == SplitSep(tok)
    IN /\ Len(f) = 3
       /\ \A i \in 1..3 : Len(f[i]) > 0 /\ AllDigits(f[i])
       /\ \/ Len(f[1]) \in {1, 2} /\ Len(f[2]) \in {1, 2} /\ Len(f[3]) \in {2, 4}
          \/ Len(f[1]) = 4

\* C9: normalize_date accepts a token only when it has a recognized shape;
\* for every other token it fails with ValueError and returns nothing.
C9_AcceptsOnlyRecognizedShapes ==
    (fn = "normalize_date" /\ ret.st # "none") =>
        /\ (ret.st = "ok" => RecognizedShape(arg))
        /\ (~RecognizedShape(arg) => ret.st = "ValueError" /\ ret.val = "")

\* what the code does accept besides: a year-first token whose 4-character
\* first field is anything, and month/day fields that int() accepts
C9_AcceptedTokens ==
    (fn = "normalize_date" /\ ret.st = "ok") =>
        LET f == SplitSep(arg)
        IN /\ Len(f) = 3
           /\ \/ RecognizedShape(arg)
              \/ Len(f[1]) = 4 /\ PyIntOk(f[2]) /\ PyIntOk(f[3])

\* every recognized shape is accepted
C9_RecognizedIsAccepted ==
    (fn = "normalize_date" /\ ret.st # "none" /\ RecognizedShape(arg)) => ret.st = "ok"

(***************************************************************************)
(* Vanguard: column-position dialect                                       *)
(***************************************************************************)
\* p.upper() == u, compared character by character
UpperEquals(p, u) == Len(p) = Len(u) /\ \A i \in 1..Len(p) : UpperChar(CharAt(p, i)) = CharAt(u, i)


\* the continuation rows after an accepted ticker row (lines[j..]):
\* [st, rows], st = "ValueError" when parse_row raises
RECURSIVE VgContinuation(_, _, _, _)

\* schedule.append(parse_row(*next_parts[:3]))
VgAppendRow(scr, ls, j, schedule, r) ==
    IF r.st # "ok" THEN [st |-> r.st, rows |-> <<>>]
    ELSE VgContinuation(scr, ls, j + 1, Append(schedule, r.row))

\* one pass of the while loop on the tokens of lines[j]
VgContinuationRow(scr, ls, j, schedule, next_parts) ==
    IF Len(next_parts) >= 3
    THEN IF ~NormOk(next_parts[1]) THEN [st |-> "ok", rows |-> schedule]
         ELSE VgAppendRow(scr, ls, j, schedule,
                          parse_row(scr, next_parts[1], next_parts[2], next_parts[3]))
    ELSE [st |-> "ok", rows |-> schedule]

VgContinuation(scr, ls, j, schedule) ==
    IF j > Len(ls) THEN [st |-> "ok", rows |-> schedule]
    ELSE VgContinuationRow(scr, ls, j, schedule, TokensOf(ls[j]))

\* the scan for the ticker row from line i on
RECURSIVE VgScan(_, _, _, _)

\* schedule.append(parse_row(*raw_dates)), then the continuation rows
VgFirstRow(scr, ls, i, r) ==
    IF r.st # "ok" THEN [st |-> r.st, rows |-> <<>>]
    ELSE VgContinuation(scr, ls, i + 1, <<r.row>>)

\* the ticker at token pos of lines[i]
VgAtTicker(scr, ls, tk, i, parts, pos) ==
    IF Len(parts) < pos + 3 THEN VgScan(scr, ls, tk, i + 1)
    ELSE IF ~(NormOk(parts[pos + 1]) /\ NormOk(parts[pos + 2]) /\ NormOk(parts[pos + 3]))
    THEN VgScan(scr, ls, tk, i + 1)
    ELSE VgFirstRow(scr, ls, i, parse_row(scr, parts[pos + 1], parts[pos + 2], parts[pos + 3]))

\* next(idx for idx, p in enumerate(parts) if p.upper() == ticker.upper())
VgTickerToken(scr, ls, tk, i, parts, hits) ==
    IF hits = {} THEN VgScan(scr, ls, tk, i + 1)
    ELSE VgAtTicker(scr, ls, tk, i, parts, SetMin(hits))

VgScanLine(scr, ls, tk, i, parts) ==
    VgTickerToken(scr, ls, tk, i, parts, {k \in 1..Len(parts) : UpperEquals(parts[k], tk)})

VgScan(scr, ls, tk, i) ==
    IF i > Len(ls) THEN [st |-> "ok", rows |-> <<>>]
    ELSE VgScanLine(scr, ls, tk, i, TokensOf(ls[i]))

\* extract_schedule_for_ticker (the same text in both Vanguard scripts)
extract_schedule_for_ticker(scr, ls, tk) == VgScan(scr, ls, UpperStr(tk), 1)

(***************************************************************************)
(* Output files: name -> content                                           *)
(***************************************************************************)
WriteFile(fs, name, content) ==
    [n \in (DOMAIN fs) \cup {name} |-> IF n = name THEN content ELSE fs[n]]

Csv(rows) == [kind |-> "csv", rows |-> rows]
Ics(events) == [kind |-> "ics", events |-> events]

\* strftime("%Y%m%d")
StrfYmd(dt) == Pad4(dt.y) \o Pad2(dt.m) \o Pad2(dt.d)

(***************************************************************************)
(* Vanguard: save_to_csv, csv_to_separate_ics, main                        *)
(***************************************************************************)
VgTypes == <<"Record Date", "Ex-Dividend Date-1", "Ex-Dividend Date", "Payable Date">>

VgField(row, typ) ==
    IF typ = "Record Date" THEN row.RecordDate
    ELSE IF typ = "Ex-Dividend Date-1" THEN row.ExMinus1
    ELSE IF typ = "Ex-Dividend Date" THEN row.ExDate
    ELSE row.PayableDate

\* ENABLE_ICS of VanguardETF_cfg.py
ENABLE_ICS == {"Ex-Dividend Date-1"}

VgIcsName(scr, tk, typ) ==
    IF scr = "VanguardETF_cfg"
    THEN LowerStr(tk) \o (IF typ = "Record Date" THEN "_record_dates.ics"
                          ELSE IF typ = "Ex-Dividend Date-1" THEN "_ex_minus_1_dates.ics"
                          ELSE IF typ = "Ex-Dividend Date" THEN "_ex_dates.ics"
                          ELSE "_payable_dates.ics")
    ELSE "./" \o LowerStr(tk) \o "_" \o Underscored(typ) \o ".ics"

VgCsvName(tk) == LowerStr(tk) \o "_dividend_schedule.csv"

\* the VEVENTs of one ICS file, rows k..; each draws one uuid4()
RECURSIVE VgEvents(_, _, _, _, _)
VgEvents(rows, typ, tk, k, uid) ==
    IF k > Len(rows) THEN [st |-> "ok", events |-> <<>>, uids |-> uid]
    ELSE LET d == Strptime(VgField(rows[k], typ), 2)
         IN IF ~d.ok THEN [st |-> "ValueError", events |-> <<>>, uids |-> uid]
            ELSE LET rest == VgEvents(rows, typ, tk, k + 1, uid + 1)
                     ev == [uid |-> uid + 1,
                            summary |-> tk \o " " \o rows[k].Quarter \o " - " \o typ,
                            dtstart |-> StrfYmd(d.dt),
                            dtend |-> StrfYmd(NextDay(d.dt)),
                            trigger |-> "PT20H"]
                 IN [st |-> rest.st, events |-> <<ev>> \o rest.events, uids |-> rest.uids]

\* csv_to_separate_ics over the date types t..4: [st, files, uids]
RECURSIVE VgIcsFiles(_, _, _, _, _, _, _)
VgIcsFiles(scr, enabled, rows, tk, t, fs, uid) ==
    IF t > Len(VgTypes) THEN [st |-> "ok", files |-> fs, uids |-> uid]
    ELSE IF VgTypes[t] \notin enabled THEN VgIcsFiles(scr, enabled, rows, tk, t + 1, fs, uid)
    ELSE LET e == VgEvents(rows, VgTypes[t], tk, 1, uid)
         IN IF e.st # "ok" THEN [st |-> e.st, files |-> fs, uids |-> e.uids]
            ELSE VgIcsFiles(scr, enabled, rows, tk, t + 1,
                            WriteFile(fs, VgIcsName(scr, tk, VgTypes[t]), Ics(e.events)), e.uids)

csv_to_separate_ics(scr, enabled, rows, tk, fs, uid) == VgIcsFiles(scr, enabled, rows, tk, 1, fs, uid)



VgTickerLists(scr) ==
    IF scr = "VanguardETF_cfg" THEN {<<"VOO", "VPLS">>, <<"VPLS", "VOO">>} ELSE {<<"VOO">>, <<"voo">>}

VgEnabled(scr) ==
    IF scr = "VanguardETF_cfg" THEN {ENABLE_ICS}
    ELSE {{"Ex-Dividend Date-1"}, {"Record Date", "Payable Date"}}

VgScripts == {"VanguardETF_cfg", "VanguardETF_arg"}

InitVanguard ==
    /\ script \in VgScripts
    /\ cfg \in {[name |-> "vanguard", ics |-> e] : e \in VgEnabled(script)}
    /\ lines \in Docs(VgLinePool, MaxVgLines)
    /\ tickers \in VgTickerLists(script)
    /\ ti = 0 /\ pc = "start" /\ result = NoResult /\ files = IdleFiles /\ log = <<>> /\ uids = 0
    /\ workers = <<>>
    /\ IdleFn

\* main up to the loop: download_pdf
VgStart ==
    /\ script \in VgScripts /\ pc = "start"
    /\ pc' = "loop"
    /\ UNCHANGED <<script, cfg, lines, tickers, ti, result, files, log, uids>>
    /\ UNCHANGED fnVars /\ UNCHANGED workers

\* what csv_to_separate_ics leaves behind
VgIcsDone(i, next) ==
    /\ files' = i.files
    /\ uids' = i.uids
    /\ pc' = IF i.st = "ok" THEN next ELSE "crashed"
    /\ UNCHANGED log

\* what one pass of main leaves behind for the schedule r of ticker tk
VgTickerDone(tk, r, next) ==
    /\ result' = [st |-> IF r.st = "ok" /\ r.rows = <<>> THEN "empty" ELSE r.st,
                  rows |-> r.rows, tk |-> tk, seg |-> NoSeg]
    /\ IF r.st # "ok"
       THEN pc' = "crashed" /\ UNCHANGED <<files, log, uids>>
       ELSE IF r.rows = <<>>
       THEN /\ pc' = next
            /\ log' = Append(log, "No records found for ticker " \o tk)
            /\ UNCHANGED <<files, uids>>
       ELSE VgIcsDone(csv_to_separate_ics(script, cfg.ics, r.rows, tk,
                                          WriteFile(files, VgCsvName(tk), Csv(r.rows)), uids),
                      next)

\* the ticker as main hands it on: args.ticker.upper() in VanguardETF_arg
VgTicker(raw) == IF script = "VanguardETF_arg" THEN UpperStr(raw) ELSE raw

\* one pass of main for the next ticker: extract, save_to_csv, csv_to_separate_ics
VgProcessTicker ==
    /\ script \in VgScripts /\ pc = "loop" /\ ti < Len(tickers)
    /\ VgTickerDone(VgTicker(tickers[ti + 1]),
                    extract_schedule_for_ticker(script, lines, VgTicker(tickers[ti + 1])),
                    IF ti + 1 = Len(tickers) THEN "done" ELSE "loop")
    /\ ti' = ti + 1
    /\ UNCHANGED <<script, cfg, lines, tickers>>
    /\ UNCHANGED fnVars /\ UNCHANGED workers

NextVanguard == VgStart \/ VgProcessTicker

SpecVanguard == InitVanguard /\ [][NextVanguard]_vars

\* the tokens after the first ticker token of a line, <<>> when the line has no ticker token
AfterTicker(line, tk) ==
    LET parts == Split(line)
        hits == {k \in 1..Len(parts) : UpperEquals(parts[k], UpperStr(tk))}
    IN IF hits = {} THEN <<>> ELSE SubSeq(parts, SetMin(hits) + 1, Len(parts))

HasTicker(line, tk) == \E k \in 1..Len(Split(line)) : UpperEquals(Split(line)[k], UpperStr(tk))

\* the line is accepted: the three tokens after the ticker token all parse as dates
AcceptedLine(line, tk) ==
    LET a == AfterTicker(line, tk)
    IN HasTicker(line, tk) /\ Len(a) >= 3 /\ NormOk(a[1]) /\ NormOk(a[2]) /\ NormOk(a[3])

\* a row of the table (three tokens or more) that leads with a date token
LeadsWithDate(line) == Len(Split(line)) >= 3 /\ NormOk(Split(line)[1])

\* the number of lines right after line i that lead with a date token
RECURSIVE DateLedRun(_, _)
DateLedRun(ls, i) ==
    IF i + 1 > Len(ls) \/ ~LeadsWithDate(ls[i + 1]) THEN 0 ELSE 1 + DateLedRun(ls, i + 1)

\* C7: lines whose three tokens after the ticker do not all parse as dates are
\* rejected; the first accepted line gives the first record from its three
\* tokens; each immediately following line adds one record for as long as its
\* first token parses as a date; the schedule collected so far is returned.
C7_ColumnPositionBlock ==
    (script \in VgScripts /\ result.st # "none") =>
        LET acc == {i \in 1..Len(lines) : AcceptedLine(lines[i], result.tk)}
        IN IF acc = {} THEN result.st = "empty"
           ELSE LET i0 == SetMin(acc)
                    a == AfterTicker(lines[i0], result.tk)
                IN /\ result.st = "ok"
                   /\ Len(result.rows) = 1 + DateLedRun(lines, i0)
                   /\ result.rows[1].RecordDate = normalize_date(a[1]).val
                   /\ result.rows[1].ExDate = normalize_date(a[2]).val
                   /\ result.rows[1].PayableDate = normalize_date(a[3]).val

\* C8: an unrecognized date token never aborts the extraction: the call
\* returns a schedule or an empty list, it does not raise.
C8_BadTokenNeverAborts ==
    script \in VgScripts => result.st \in {"none", "ok", "empty"}

\* what the code does: the call raises exactly when parse_row meets a token
\* that the try block did not test
C8_RaisesOnlyValueError ==
    script \in VgScripts => result.st \in {"none", "ok", "empty", "ValueError"}

(***************************************************************************)
(* SPDR: month-row and footer dialects, segment locator                    *)
(* Lines are stripped (l.strip()) before any matcher sees them.            *)
(***************************************************************************)
MONTH_NAMES ==
    <<"January", "February", "March", "April", "May", "June", "July", "August",
      "September", "October", "November", "December">>

EXCISE_LABEL == "Potential Excise Distribution"
HEADER_SIGNATURE == "Ex Date Record Date Payable Date"
OUTPUT_CSV == "spdr_dates_with_footer_verbose.csv"

\* \d{1,2}/\d{1,2}/\d{4} on a whole token
ShapeOfFields(f) ==
    /\ Len(f) = 3
    /\ Len(f[1]) \in {1, 2} /\ AllDigits(f[1])
    /\ Len(f[2]) \in {1, 2} /\ AllDigits(f[2])
    /\ Len(f[3]) = 4 /\ AllDigits(f[3])

DateShape4(t) == ShapeOfFields(SplitChar(t, "/"))

\* the prefixes of t that \d{1,2}/\d{1,2}/\d{4} matches (the last group, which
\* nothing anchors on the right)
DatePrefixes(t) == {n \in 8..10 : n <= Len(t) /\ DateShape4(SubSeq(t, 1, n))}

NoMatch == [ok |-> FALSE, exd |-> "", recd |-> "", payd |-> ""]

\* ^label\s+(date)\s+(date)\s+(date) : the three groups
\* the last group on token t: the longest prefix that is a date
LongestDate(t) == SubSeq(t, 1, SetMax(DatePrefixes(t)))

\* the three groups on the tokens t after the label
RowGroups(t) ==
    IF Len(t) >= 3 /\ DateShape4(t[1]) /\ DateShape4(t[2]) /\ DatePrefixes(t[3]) # {}
    THEN [ok |-> TRUE, exd |-> t[1], recd |-> t[2], payd |-> LongestDate(t[3])]
    ELSE NoMatch

RowMatch(ln, label) ==
    IF ~(StartsWith(ln, label) /\ Len(ln) > Len(label) /\ IsSpace(CharAt(ln, Len(label) + 1)))
    THEN NoMatch
    ELSE RowGroups(Split(SubSeq(ln, Len(label) + 1, Len(ln))))

\* the alternatives of (January|...|December) that match
MonthOf(ln) == {k \in 1..Len(MONTH_NAMES) : RowMatch(ln, MONTH_NAMES[k]).ok}

MonthGroups(name, m) == [ok |-> TRUE, month |-> name, exd |-> m.exd, recd |-> m.recd, payd |-> m.payd]

MonthMatch(ln, ks) ==
    IF ks = {} THEN [ok |-> FALSE, month |-> "", exd |-> "", recd |-> "", payd |-> ""]
    ELSE MonthGroups(MONTH_NAMES[SetMin(ks)], RowMatch(ln, MONTH_NAMES[SetMin(ks)]))

\* MONTH_RE.match: [ok, month, exd, recd, payd]
MONTH_RE(ln) == MonthMatch(ln, MonthOf(ln))

\* FOOTER_RE.match
FOOTER_RE(ln) == RowMatch(ln, EXCISE_LABEL)

\* re.search(rf"\b{ticker}\b", l) for a ticker of word characters
TickerSearch(l, tk) ==
    \E i \in 1..Len(l) :
        /\ OccursAt(l, tk, i)
        /\ (i = 1 \/ ~IsWordChar(CharAt(l, i - 1)))
        /\ (i + Len(tk) > Len(l) \/ ~IsWordChar(CharAt(l, i + Len(tk))))

\* rows.append([label, ex, get_business_day_before(ex), rec, pay])
RowWith(label, m, b) ==
    IF b.st = "ok" THEN [st |-> "ok", rows |-> <<<<label, m.exd, b.val, m.recd, m.payd>>>>]
    ELSE [st |-> b.st, rows |-> <<>>]

RowFrom(m, f) ==
    IF m.ok THEN RowWith(m.month, m, get_business_day_before(m.exd))
    ELSE IF f.ok THEN RowWith(EXCISE_LABEL, f, get_business_day_before(f.exd))
    ELSE [st |-> "ok", rows |-> <<>>]

\* the row of one line of the segment: [st, rows] with no row, one row, or ValueError
SpdrRowOf(ln) == RowFrom(MONTH_RE(ln), FOOTER_RE(ln))

\* the matchers on the lines of the documents, evaluated once
RowOfLine == [l \in SpdrLines |-> SpdrRowOf(l)]
RowOf(ln) == IF ln \in SpdrLines THEN RowOfLine[ln] ELSE SpdrRowOf(ln)
FooterLines == {l \in SpdrLines : FOOTER_RE(l).ok}
IsFooter(ln) == IF ln \in SpdrLines THEN ln \in FooterLines ELSE FOOTER_RE(ln).ok
HeaderLines == {l \in SpdrLines : StartsWith(l, HEADER_SIGNATURE)}
IsHeader(ln) == IF ln \in SpdrLines THEN ln \in HeaderLines ELSE StartsWith(ln, HEADER_SIGNATURE)

\* the rows of a line before the rows of the lines after it
AddRows(r, rest) ==
    IF r.st # "ok" THEN r
    ELSE IF rest.st # "ok" THEN rest
    ELSE [st |-> "ok", rows |-> r.rows \o rest.rows]

\* the rows of lines ls[i..]
RECURSIVE SpdrRows(_, _)
SpdrRows(ls, i) ==
    IF i > Len(ls) THEN [st |-> "ok", rows |-> <<>>]
    ELSE AddRows(RowOf(ls[i]), SpdrRows(ls, i + 1))

\* extract_rows: every month and footer row of the document
extract_rows(ls) == SpdrRows(ls, 1)

\* for i in range(ticker_idx, -1, -1): the first header line met, 0 when none
RECURSIVE HeaderScan(_, _)
HeaderScan(ls, i) ==
    IF i < 1 THEN 0
    ELSE IF IsHeader(ls[i]) THEN i
    ELSE HeaderScan(ls, i - 1)

\* a scan that takes the end of the document for the footer when there is none
FooterScanOrEnd(ls, j) ==
    LET fs == {k \in j..Len(ls) : IsFooter(ls[k])}
    IN IF fs = {} THEN Len(ls) ELSE SetMin(fs)

\* a scan that takes the last footer line after the header instead of the first
FooterScanLast(ls, j) ==
    LET fs == {k \in j..Len(ls) : IsFooter(ls[k])}
    IN IF fs = {} THEN 0 ELSE SetMax(fs)

\* for j in range(header_idx+1, len(lines)): the first footer line met, 0 when none
RECURSIVE FooterScan(_, _)
FooterScan(ls, j) ==
    IF j > Len(ls) THEN 0
    ELSE IF IsFooter(ls[j]) THEN j
    ELSE FooterScan(ls, j + 1)

\* the first occurrence instead of the last
FirstTickerIdx(idxs) == SetMin(idxs)

\* ticker_idxs[-1]
LastTickerIdx(idxs) == SetMax(idxs)

\* segment = lines[header_idx : footer_idx+1], or no footer
SegmentAt(ls, ticker_idx, header_idx, footer_idx) ==
    IF footer_idx = 0
    THEN [st |-> "no footer",
          seg |-> [NoSeg EXCEPT !.ticker_idx = ticker_idx, !.header_idx = header_idx]]
    ELSE [st |-> "ok",
          seg |-> [ticker_idx |-> ticker_idx, header_idx |-> header_idx,
                   footer_idx |-> footer_idx,
                   segment |-> SubSeq(ls, header_idx, footer_idx)]]

HeaderAt(ls, ticker_idx, header_idx) ==
    IF header_idx = 0
    THEN [st |-> "no header", seg |-> [NoSeg EXCEPT !.ticker_idx = ticker_idx]]
    ELSE SegmentAt(ls, ticker_idx, header_idx, FooterScan(ls, header_idx + 1))

TickerAt(ls, ticker_idxs) ==
    IF ticker_idxs = {} THEN [st |-> "ticker not found", seg |-> NoSeg]
    ELSE HeaderAt(ls, LastTickerIdx(ticker_idxs), HeaderScan(ls, LastTickerIdx(ticker_idxs)))

\* the locating part of extract_segment_by_ticker: [st, seg]
LocateSegment(ls, tk) == TickerAt(ls, {i \in 1..Len(ls) : TickerSearch(ls[i], tk)})

\* the column names, in the order extract_segment_by_ticker appends them
SpdrCols == <<"Ex Date", "Ex Date -1", "Record Date", "Payable Date">>

\* idx of write_ticker_splits / generate_ics_from_rows, 1-based
SpdrIdx(c) ==
    IF c = "Ex Date" THEN 2 ELSE IF c = "Ex Date -1" THEN 3 ELSE IF c = "Record Date" THEN 4 ELSE 5

\* the configuration flags as the source sets them
SourceConfig ==
    [name |-> "spdr",
     GENERATE_FULL_CSV |-> TRUE,
     GENERATE_SPLIT |-> {"Payable Date"},
     GENERATE_ICS |-> {"Ex Date -1"},
     TICKER_COLUMNS_CONFIG |-> [t \in {"GAL", "SPY"} |-> IF t = "GAL" THEN <<"Ex Date -1">> ELSE <<"Record Date">>]]

\* every output enabled
AllOnConfig ==
    [SourceConfig EXCEPT !.GENERATE_SPLIT = {"Ex Date", "Ex Date -1", "Record Date", "Payable Date"},
                         !.GENERATE_ICS = {"Ex Date", "Ex Date -1", "Record Date", "Payable Date"}]

\* [c for c in seq if c in S]
RECURSIVE SelectIn(_, _)
SelectIn(seq, S) ==
    IF seq = <<>> THEN <<>>
    ELSE (IF Head(seq) \in S THEN <<Head(seq)>> ELSE <<>>) \o SelectIn(Tail(seq), S)

\* cols of extract_segment_by_ticker
ColsFor(c, tk) ==
    IF tk \in DOMAIN c.TICKER_COLUMNS_CONFIG THEN c.TICKER_COLUMNS_CONFIG[tk]
    ELSE SelectIn(SpdrCols, c.GENERATE_SPLIT)

SpdrBase(tk) == tk \o "_SPDR_Schedule"

\* write_ticker_splits over cols[k..]
RECURSIVE SpdrSplits(_, _, _, _, _, _)
SpdrSplits(c, rows, base, cols, k, fs) ==
    IF k > Len(cols) THEN fs
    ELSE IF cols[k] \notin c.GENERATE_SPLIT THEN SpdrSplits(c, rows, base, cols, k + 1, fs)
    ELSE SpdrSplits(c, rows, base, cols, k + 1,
                    WriteFile(fs, base \o "_" \o Underscored(cols[k]) \o ".csv",
                              Csv([r \in 1..Len(rows) |-> <<rows[r][1], rows[r][SpdrIdx(cols[k])]>>])))

write_ticker_splits(c, rows, base, cols, fs) == SpdrSplits(c, rows, base, cols, 1, fs)

\* the VEVENTs of one SPDR ICS file, rows k..; a date strptime rejects is skipped
RECURSIVE SpdrEvents(_, _, _, _, _)
SpdrEvents(rows, col, tk, k, uid) ==
    IF k > Len(rows) THEN [events |-> <<>>, uids |-> uid]
    ELSE LET d == Strptime(rows[k][SpdrIdx(col)], 4)
         IN IF ~d.ok THEN SpdrEvents(rows, col, tk, k + 1, uid)
            ELSE LET rest == SpdrEvents(rows, col, tk, k + 1, uid + 1)
                     ev == [uid |-> uid + 1,
                            summary |-> tk \o " Dividend " \o col,
                            dtstart |-> StrfYmd(d.dt),
                            dtend |-> StrfYmd(NextDay(d.dt)),
                            trigger |-> StrfYmd(d.dt) \o "T120000Z"]
                 IN [events |-> <<ev>> \o rest.events, uids |-> rest.uids]

\* generate_ics_from_rows over cols[k..]: [files, uids]
RECURSIVE SpdrIcs(_, _, _, _, _, _, _)
SpdrIcs(c, rows, tk, cols, k, fs, uid) ==
    IF k > Len(cols) THEN [files |-> fs, uids |-> uid]
    ELSE IF cols[k] \notin c.GENERATE_ICS THEN SpdrIcs(c, rows, tk, cols, k + 1, fs, uid)
    ELSE LET e == SpdrEvents(rows, cols[k], tk, 1, uid)
         IN SpdrIcs(c, rows, tk, cols, k + 1,
                    WriteFile(fs, SpdrBase(tk) \o "_" \o Underscored(cols[k]) \o ".ics", Ics(e.events)),
                    e.uids)

generate_ics_from_rows(c, rows, tk, cols, fs, uid) == SpdrIcs(c, rows, tk, cols, 1, fs, uid)

\* the outputs of extract_segment_by_ticker, in the order it writes them
FullCsvStep(c, rows, fs) ==
    IF c.GENERATE_FULL_CSV THEN WriteFile(fs, OUTPUT_CSV, Csv(rows)) ELSE fs

SplitStep(c, rows, tk, cols, fs) ==
    IF c.GENERATE_SPLIT # {} THEN write_ticker_splits(c, rows, SpdrBase(tk), cols, fs) ELSE fs

IcsStep(c, rows, tk, cols, fs, uid) ==
    IF c.GENERATE_ICS # {} THEN generate_ics_from_rows(c, rows, tk, cols, fs, uid)
    ELSE [files |-> fs, uids |-> uid]

SegmentDone(rows, seg, i) ==
    [st |-> "ok", rows |-> rows, seg |-> seg, files |-> i.files, uids |-> i.uids]

SegmentOutputs(c, rows, tk, cols, seg, fs, uid) ==
    SegmentDone(rows, seg,
                IcsStep(c, rows, tk, cols,
                        SplitStep(c, rows, tk, cols, FullCsvStep(c, rows, fs)), uid))

SegmentFailed(st, seg, fs, uid) ==
    [st |-> st, rows |-> <<>>, seg |-> seg, files |-> fs, uids |-> uid]

SegmentRows(c, r, tk, seg, fs, uid) ==
    IF r.st # "ok" THEN SegmentFailed(r.st, seg, fs, uid)
    ELSE SegmentOutputs(c, r.rows, tk, ColsFor(c, tk), seg, fs, uid)

SegmentOf(c, loc, tk, fs, uid) ==
    IF loc.st # "ok" THEN SegmentFailed(loc.st, loc.seg, fs, uid)
    ELSE SegmentRows(c, SpdrRows(loc.seg.segment, 2), tk, loc.seg, fs, uid)

\* extract_segment_by_ticker: [st, rows, seg, files, uids]
extract_segment_by_ticker(c, ls, tk, fs, uid) == SegmentOf(c, LocateSegment(ls, tk), tk, fs, uid)

\* the diagnostic extract_segment_by_ticker prints for a failed location
Diagnostic(st, tk, seg) ==
    IF st = "ticker not found" THEN "Ticker '" \o tk \o "' not found in the document."
    ELSE IF st = "no header" THEN "No header found before ticker '" \o tk \o "'."
    ELSE "No footer found after header at line " \o ToStr(seg.header_idx - 1) \o "."

LocateFailures == {"ticker not found", "no header", "no footer"}

\* write_csv(all_rows, OUTPUT_CSV) of __main__
SpdrWriteAll(all) ==
    IF all.st # "ok"
    THEN pc' = "crashed" /\ UNCHANGED files
    ELSE /\ pc' = IF Len(tickers) = 0 THEN "done" ELSE "loop"
         /\ files' = FullCsvStep(cfg, all.rows, files)

\* __main__ up to the loop: download_pdf, extract_rows, write_csv
SpdrStart ==
    /\ script = "SPDR_ETF_cfg" /\ pc = "start"
    /\ SpdrWriteAll(extract_rows(lines))
    /\ UNCHANGED <<script, cfg, lines, tickers, ti, result, log, uids>>
    /\ UNCHANGED fnVars /\ UNCHANGED workers

\* what one pass of the loop leaves behind
SpdrTickerDone(tk, r) ==
    /\ result' = [st |-> r.st, rows |-> r.rows, tk |-> tk, seg |-> r.seg]
    /\ files' = r.files
    /\ uids' = r.uids
    /\ log' = IF r.st \in LocateFailures THEN Append(log, Diagnostic(r.st, tk, r.seg)) ELSE log
    /\ pc' = IF r.st \notin LocateFailures \cup {"ok"} THEN "crashed"
             ELSE IF ti + 1 = Len(tickers) THEN "done" ELSE "loop"

\* one pass of the loop of __main__: extract_segment_by_ticker(t)
SpdrProcessTicker ==
    /\ script = "SPDR_ETF_cfg" /\ pc = "loop" /\ ti < Len(tickers)
    /\ SpdrTickerDone(tickers[ti + 1],
                      extract_segment_by_ticker(cfg, lines, tickers[ti + 1], files, uids))
    /\ ti' = ti + 1
    /\ UNCHANGED <<script, cfg, lines, tickers>>
    /\ UNCHANGED fnVars /\ UNCHANGED workers

NextSPDR == SpdrStart \/ SpdrProcessTicker


InitSPDRWith(docs, lists, cfgs) ==
    /\ script = "SPDR_ETF_cfg"
    /\ cfg \in cfgs
    /\ lines \in docs
    /\ tickers \in lists
    /\ ti = 0 /\ pc = "start" /\ result = NoResult /\ files = IdleFiles /\ log = <<>> /\ uids = 0
    /\ workers = <<>>
    /\ IdleFn

InitLocate == InitSPDRWith(Docs(LocatePool, MaxLocateLines), {<<"SPY">>}, {SourceConfig})

InitSPDR ==
    InitSPDRWith(Docs(SpdrLinePool, MaxSpdrLines), {<<"BIL", "SPY">>, <<"SPY", "BIL">>},
                 {SourceConfig, AllOnConfig})

InitSchedule == InitSPDRWith(Docs(SchedulePool, MaxScheduleLines), {<<"SPY">>}, {SourceConfig})

SpecLocate == InitLocate /\ [][NextSPDR]_vars

SpecSPDR == InitSPDR /\ [][NextSPDR]_vars

SpecSchedule == InitSchedule /\ [][NextSPDR]_vars

(***************************************************************************)
(* The segment the specification describes, stated on the document         *)
(***************************************************************************)
TickerLines(ls, tk) == {i \in 1..Len(ls) : TickerSearch(ls[i], tk)}
HeaderLinesUpTo(ls, n) == {i \in 1..n : StartsWith(ls[i], HEADER_SIGNATURE)}
FooterLinesAfter(ls, h) == {j \in (h + 1)..Len(ls) : FOOTER_RE(ls[j]).ok}

\* "ticker not found" / "no header" / "no footer" / "ok", with the bounds
ExpectedSegment(ls, tk) ==
    IF TickerLines(ls, tk) = {} THEN [st |-> "ticker not found", seg |-> NoSeg]
    ELSE LET last == SetMax(TickerLines(ls, tk))
         IN IF HeaderLinesUpTo(ls, last) = {}
            THEN [st |-> "no header", seg |-> [NoSeg EXCEPT !.ticker_idx = last]]
            ELSE LET h == SetMax(HeaderLinesUpTo(ls, last))
                 IN IF FooterLinesAfter(ls, h) = {}
                    THEN [st |-> "no footer", seg |-> [NoSeg EXCEPT !.ticker_idx = last, !.header_idx = h]]
                    ELSE LET f == SetMin(FooterLinesAfter(ls, h))
                         IN [st |-> "ok",
                             seg |-> [ticker_idx |-> last, header_idx |-> h, footer_idx |-> f,
                                      segment |-> [k \in 1..(f - h + 1) |-> ls[h + k - 1]]]]

\* C1: the last line holding the ticker is the one used; the header is the
\* nearest header line at or before it, the footer the first footer line after
\* that header, and the segment is exactly the lines from header to footer.
C1_LastOccurrenceSegment ==
    (script = "SPDR_ETF_cfg" /\ result.st # "none" /\ ExpectedSegment(lines, result.tk).st = "ok") =>
        /\ result.st = "ok"
        /\ result.seg = ExpectedSegment(lines, result.tk).seg

\* the ticker is on several lines, headers and footers on several lines too,
\* and the segment found is not the whole document
C1_Witness ==
    /\ script = "SPDR_ETF_cfg" /\ result.st = "ok"
    /\ Cardinality(TickerLines(lines, result.tk)) >= 2
    /\ Cardinality(HeaderLinesUpTo(lines, Len(lines))) >= 2
    /\ result.seg.header_idx > 1
    /\ result.seg.header_idx < result.seg.ticker_idx
    /\ Len(result.seg.segment) = 3

(***************************************************************************)
(* The run over a list of tickers, as a fold of the per-ticker pipeline    *)
(***************************************************************************)
\* the files and uuid count after extract_segment_by_ticker for tks[k..]
RECURSIVE SpdrRunFrom(_, _, _, _, _, _)
SpdrRunFrom(c, ls, tks, k, fs, uid) ==
    IF k > Len(tks) THEN [files |-> fs, uids |-> uid]
    ELSE LET r == extract_segment_by_ticker(c, ls, tks[k], fs, uid)
         IN SpdrRunFrom(c, ls, tks, k + 1, r.files, r.uids)

\* the files __main__ has written before the loop
SpdrStartFiles(c, ls) ==
    IF c.GENERATE_FULL_CSV THEN WriteFile(IdleFiles, OUTPUT_CSV, Csv(extract_rows(ls).rows)) ELSE IdleFiles

\* the tickers of the list whose segment the document holds
RECURSIVE Locatable(_, _)
Locatable(ls, tks) ==
    IF tks = <<>> THEN <<>>
    ELSE (IF ExpectedSegment(ls, Head(tks)).st = "ok" THEN <<Head(tks)>> ELSE <<>>) \o Locatable(ls, Tail(tks))

PerTickerFiles(tk) == {f \in DOMAIN files : StartsWith(f, SpdrBase(tk))}

\* the step of the loop that processes a ticker whose ticker line, header or footer is absent
FailingTickerStep ==
    /\ script = "SPDR_ETF_cfg" /\ pc = "loop" /\ ti' = ti + 1
    /\ ExpectedSegment(lines, tickers[ti + 1]).st \in LocateFailures

\* C4: when the ticker, the header before it or the footer after the header
\* is absent, the extraction reports the failure and writes no CSV, no split
\* CSV and no ICS file for that ticker; the remaining tickers are still
\* processed and the outputs of the run are those of the run without the
\* failing tickers.
C4_FailedTickerWritesNothing ==
    [][/\ FailingTickerStep =>
            /\ files' = files
            /\ uids' = uids
            /\ Len(log') = Len(log) + 1
            /\ result'.st = ExpectedSegment(lines, tickers[ti + 1]).st
            /\ pc' = IF ti + 1 = Len(tickers) THEN "done" ELSE "loop"
       /\ (script = "SPDR_ETF_cfg" /\ pc' = "done") =>
            LET run == SpdrRunFrom(cfg, lines, Locatable(lines, tickers), 1, SpdrStartFiles(cfg, lines), 0)
            IN /\ files' = run.files
               /\ uids' = run.uids
               /\ \A k \in 1..Len(tickers) :
                      ExpectedSegment(lines, tickers[k]).st \in LocateFailures =>
                          \A f \in DOMAIN files' : ~StartsWith(f, SpdrBase(tickers[k]))
      ]_vars

\* a finished run in which one ticker failed and the other wrote a split CSV and an ICS file
C4_Witness ==
    /\ script = "SPDR_ETF_cfg" /\ pc = "done"
    /\ Len(log) = 1
    /\ ExpectedSegment(lines, tickers[1]).st \in LocateFailures
    /\ ExpectedSegment(lines, tickers[2]).st = "ok"
    /\ \E f \in PerTickerFiles(tickers[2]) : files[f].kind = "csv" /\ Len(files[f].rows) >= 2
    /\ \E f \in PerTickerFiles(tickers[2]) : files[f].kind = "ics" /\ Len(files[f].events) >= 1

(***************************************************************************)
(* iShares (label-block dialect): iShareETF_arg.py                         *)
(***************************************************************************)

\* the pages of the distribution schedule
IsPagePool ==
    {"Distribution Schedule for Tax Purposes",
     "DECLARATION DATE: 1-Dec-25\nEX-DATE/RECORD DATE: 2-Dec-25\nPAY DATE: 5-Dec-25\nDECLARATION DATE: 18-Dec-25\nEX-DATE/RECORD DATE: 19-Dec-25\nPAY DATE: 24-Dec-25",
     "DECLARATION DATE: 30-Jan-26 27-Feb-26 31-Mar-26\nEX-DATE/RECORD DATE: 2-Feb-26 2-Mar-26\nPAY DATE: 5-Feb-26 5-Mar-26 6-Apr-26",
     "DECLARATION DATE: 30-Apr-26 29-May-26\n30-Jun-26 31-Jul-26\nEX-DATE/RECORD DATE: 1-May-26 1-Jun-26\n1-Jul-26 3-Aug-26\nPAY DATE: 6-May-26 4-Jun-26\n7-Jul-26 6-Aug-2026",
     "SGOV iShares 0-3 Month Treasury Bond ETF",
     "XSGOV SGOVX",
     "DECLARATION DATE: 30-Feb-26\nEX-DATE/RECORD DATE: 2-Mar-26\nPAY DATE: 5-Mar-26",
     "PAY DATE: 7-Jan-26"}
MaxIsPages == 4

IsTickers == {"SGOV"}

\* The text is kept as the sequence of its lines: extract_text ends the text
\* of every page with "\n", and neither the marker nor "Purposes" holds a
\* line break, so that a position of the text is a line and a column.
PageLines == [p \in IsPagePool |-> SplitChar(p, "\n")]
LinesOfPage(p) == IF p \in IsPagePool THEN PageLines[p] ELSE SplitChar(p, "\n")

RECURSIVE extract_text(_)
extract_text(pages) ==
    IF pages = <<>> THEN <<>> ELSE LinesOfPage(Head(pages)) \o extract_text(Tail(pages))

\* str.rfind within the lines of the pages, evaluated once
IsNeedles == {t \o " " : t \in IsTickers} \cup {"Purposes"}
IsLines == UNION {{PageLines[p][k] : k \in 1..Len(PageLines[p])} : p \in IsPagePool}
RFindTable == [l \in IsLines |-> [p \in IsNeedles |-> RFind(l, p)]]
RFindIn(line, p) ==
    IF line \in IsLines /\ p \in IsNeedles THEN RFindTable[line][p] ELSE RFind(line, p)

\* text.rfind(p): the last line holding p and the last column of p in it,
\* line = 0 when p is absent from lines 1..l
RECURSIVE RFindText(_, _, _)
RFindText(text, p, l) ==
    IF l = 0 THEN [line |-> 0, col |-> 0]
    ELSE IF RFindIn(text[l], p) > 0 THEN [line |-> l, col |-> RFindIn(text[l], p)]
    ELSE RFindText(text, p, l - 1)

\* text[:idx_mark]: the whole lines before the marker and the unfinished one
Snippet(text, at) ==
    [whole |-> SubSeq(text, 1, at.line - 1), rest |-> SubSeq(text[at.line], 1, at.col - 1)]

\* the last "Purposes" of the snippet
PurposeAt(sn) ==
    IF RFindIn(sn.rest, "Purposes") > 0
    THEN [line |-> Len(sn.whole) + 1, col |-> RFindIn(sn.rest, "Purposes")]
    ELSE RFindText(sn.whole, "Purposes", Len(sn.whole))

\* snippet[start_idx:].splitlines(): no empty last element
BlockLines(sn, from) ==
    IF from.line > Len(sn.whole) THEN <<SubSeq(sn.rest, from.col, Len(sn.rest))>>
    ELSE <<SubSeq(sn.whole[from.line], from.col, Len(sn.whole[from.line]))>>
         \o SubSeq(sn.whole, from.line + 1, Len(sn.whole))
         \o (IF sn.rest = "" THEN <<>> ELSE <<sn.rest>>)

DECL_LABEL == "DECLARATION DATE:"
EX_LABEL == "EX-DATE/RECORD DATE:"
PAY_LABEL == "PAY DATE:"

\* line.split(":", 1)[1]
AfterColon(line) == SubSeq(line, Seek(line, 1, {":"}, TRUE) + 1, Len(line))

\* line.strip() is not empty
NonBlank(line) == Seek(line, 1, SpaceSet, FALSE) <= Len(line)

\* the state of the label scan: cur = "" is None
NoScan == [cur |-> "", buf |-> <<>>, decl_blocks |-> <<>>, ex_blocks |-> <<>>, pay_blocks |-> <<>>]

\* a flush that drops a section whose text is empty (a label with nothing after it)
FlushNonEmpty(s) ==
    IF s.cur # "" /\ JoinSp(s.buf) # ""
    THEN IF s.cur = "DECL" THEN [s EXCEPT !.decl_blocks = Append(@, JoinSp(s.buf))]
         ELSE IF s.cur = "EX" THEN [s EXCEPT !.ex_blocks = Append(@, JoinSp(s.buf))]
         ELSE [s EXCEPT !.pay_blocks = Append(@, JoinSp(s.buf))]
    ELSE s

\* if cur and buf: (decl_blocks | ex_blocks | pay_blocks).append(" ".join(buf))
Flush(s) ==
    IF s.cur # "" /\ s.buf # <<>>
    THEN IF s.cur = "DECL" THEN [s EXCEPT !.decl_blocks = Append(@, JoinSp(s.buf))]
         ELSE IF s.cur = "EX" THEN [s EXCEPT !.ex_blocks = Append(@, JoinSp(s.buf))]
         ELSE [s EXCEPT !.pay_blocks = Append(@, JoinSp(s.buf))]
    ELSE s

\* one pass of the loop over the lines of the block
ScanLine(s, line) ==
    IF StartsWith(line, DECL_LABEL)
    THEN [Flush(s) EXCEPT !.cur = "DECL", !.buf = <<AfterColon(line)>>]
    ELSE IF StartsWith(line, EX_LABEL)
    THEN [Flush(s) EXCEPT !.cur = "EX", !.buf = <<AfterColon(line)>>]
    ELSE IF StartsWith(line, PAY_LABEL)
    THEN [Flush(s) EXCEPT !.cur = "PAY", !.buf = <<AfterColon(line)>>]
    ELSE IF s.cur # "" /\ NonBlank(line) THEN [s EXCEPT !.buf = Append(@, line)]
    ELSE s

RECURSIVE ScanFrom(_, _, _)
ScanFrom(s, block, i) ==
    IF i > Len(block) THEN Flush(s) ELSE ScanFrom(ScanLine(s, block[i]), block, i + 1)

LabelScan(block) == ScanFrom(NoScan, block, 1)

\* dr = \d{1,2}-[A-Za-z]{3}-\d{2,4} matched at position i of s: the last
\* position of the match, 0 when there is none
DateMatchAt(s, i) ==
    LET n == Len(s)
        d == IF IsDigit(CharAt(s, i))
             THEN (IF i + 1 <= n /\ IsDigit(CharAt(s, i + 1)) THEN 2 ELSE 1)
             ELSE 0
        a == i + d
    IN IF d = 0 \/ a + 6 > n THEN 0
       ELSE IF /\ CharAt(s, a) = "-"
               /\ \A k \in 1..3 : IsAlpha(CharAt(s, a + k))
               /\ CharAt(s, a + 4) = "-"
               /\ IsDigit(CharAt(s, a + 5)) /\ IsDigit(CharAt(s, a + 6))
       THEN IF a + 7 <= n /\ IsDigit(CharAt(s, a + 7))
            THEN (IF a + 8 <= n /\ IsDigit(CharAt(s, a + 8)) THEN a + 8 ELSE a + 7)
            ELSE a + 6
       ELSE 0

\* dr.findall(s): the non-overlapping matches, leftmost first
RECURSIVE FindAllFrom(_, _)
FindAllFrom(s, i) ==
    LET b == Seek(s, i, DigitSet, TRUE)
    IN IF b > Len(s) THEN <<>>
       ELSE LET e == DateMatchAt(s, b)
            IN IF e = 0 THEN FindAllFrom(s, b + 1)
               ELSE <<SubSeq(s, b, e)>> \o FindAllFrom(s, e + 1)

findall(s) == FindAllFrom(s, 1)

\* %b of strptime: the abbreviated month names, any letter case
MONTH_ABBR == <<"jan", "feb", "mar", "apr", "may", "jun", "jul", "aug", "sep", "oct", "nov", "dec">>
MonthAbbr(mm) ==
    LET l == LowerStr(mm)
    IN IF \E k \in 1..12 : MONTH_ABBR[k] = l THEN CHOOSE k \in 1..12 : MONTH_ABBR[k] = l ELSE 0

\* date.isoformat and datetime.fromisoformat
isoformat(dt) == Pad4(dt.y) \o "-" \o Pad2(dt.m) \o "-" \o Pad2(dt.d)
fromisoformat(str) ==
    Date(ToInt(SubSeq(str, 1, 4)), ToInt(SubSeq(str, 6, 7)), ToInt(SubSeq(str, 9, 10)))

\* parse_dates.norm: strptime(f"{dd}-{mm}-{yy}", "%d-%b-%Y").date().isoformat()
norm(tok) ==
    LET f == SplitChar(tok, "-")
        yy == IF Len(f[3]) = 2 THEN "20" \o f[3] ELSE f[3]
        m == MonthAbbr(f[2])
    IN IF /\ StrpField(f[1], 1, 31) /\ m # 0
          /\ Len(yy) = 4 /\ AllDigits(yy)
          /\ ValidDate(ToInt(yy), m, ToInt(f[1]))
       THEN Ok(isoformat(Date(ToInt(yy), m, ToInt(f[1]))))
       ELSE Raise("ValueError")

\* rows.append({...}) for one triple, before the rows of the triples after it
AddTriple(d, e, p, rest) ==
    IF d.st # "ok" \/ e.st # "ok" \/ p.st # "ok" THEN [st |-> "ValueError", rows |-> <<>>]
    ELSE IF rest.st # "ok" THEN rest
    ELSE [st |-> "ok",
          rows |-> <<[declaration_date |-> d.val, ex_date |-> e.val, pay_date |-> p.val]>>
                   \o rest.rows]

\* for d, e, p in zip(ds, es, ps): rows.append(...), triples k..
RECURSIVE ZipRows(_, _, _, _)
ZipRows(ds, es, ps, k) ==
    IF k > Len(ds) \/ k > Len(es) \/ k > Len(ps) THEN [st |-> "ok", rows |-> <<>>]
    ELSE AddTriple(norm(ds[k]), norm(es[k]), norm(ps[k]), ZipRows(ds, es, ps, k + 1))

\* the rows of one block before the rows of the blocks after it
AddBlock(z, rest) ==
    IF z.st # "ok" THEN z
    ELSE IF rest.st # "ok" THEN rest
    ELSE [st |-> "ok", rows |-> z.rows \o rest.rows]

\* for decl, ex, pay in zip(decl_blocks, ex_blocks, pay_blocks), blocks b..
RECURSIVE BlockRows(_, _, _, _)
BlockRows(decl_blocks, ex_blocks, pay_blocks, b) ==
    IF b > Len(decl_blocks) \/ b > Len(ex_blocks) \/ b > Len(pay_blocks)
    THEN [st |-> "ok", rows |-> <<>>]
    ELSE AddBlock(ZipRows(findall(decl_blocks[b]), findall(ex_blocks[b]), findall(pay_blocks[b]), 1),
                  BlockRows(decl_blocks, ex_blocks, pay_blocks, b + 1))

\* seq[-n:]
LastN(seq, n) == IF Len(seq) > n THEN SubSeq(seq, Len(seq) - n + 1, Len(seq)) ELSE seq

TickerNotFound == "Ticker not found"
PurposesNotFound == "'Purposes' keyword not found before ticker"
MismatchedBlocks == "Mismatched block counts"
IsFail(e, m) == [st |-> e, msg |-> m, rows |-> <<>>]

\* block = snippet[start_idx:].splitlines()
BlockOf(sn) == BlockLines(sn, PurposeAt(sn))

\* the lines between the last "Purposes" before the last marker and that marker
LocatedBlock(text, marker) == BlockOf(Snippet(text, RFindText(text, marker, Len(text))))

RowsDone(r) == [st |-> r.st, msg |-> "", rows |-> r.rows]

\* the block-count check, the cut to the last three blocks, the rows
RowsOfBlocks(s) ==
    IF ~(Len(s.decl_blocks) = Len(s.ex_blocks) /\ Len(s.ex_blocks) = Len(s.pay_blocks))
    THEN IsFail("RuntimeError", MismatchedBlocks)
    ELSE RowsDone(BlockRows(LastN(s.decl_blocks, 3), LastN(s.ex_blocks, 3), LastN(s.pay_blocks, 3), 1))

RowsOfSnippet(sn, start) ==
    IF start.line = 0 THEN IsFail("RuntimeError", PurposesNotFound)
    ELSE RowsOfBlocks(LabelScan(BlockLines(sn, start)))

RowsAfterMarker(text, idx_mark) ==
    IF idx_mark.line = 0 THEN IsFail("RuntimeError", TickerNotFound)
    ELSE RowsOfSnippet(Snippet(text, idx_mark), PurposeAt(Snippet(text, idx_mark)))

\* iShareETF_arg.parse_dates: [st, msg, rows]
parse_dates(text, marker) == RowsAfterMarker(text, RFindText(text, marker, Len(text)))

IsFields == <<"declaration_date", "ex_date", "pay_date">>
IsTitle(tk, field) ==
    tk \o (IF field = "declaration_date" THEN " Declaration Date"
           ELSE IF field = "ex_date" THEN " Ex-Dividend Date" ELSE " Pay Date")

\* the VEVENTs of one ICS file: uid = f"{ticker}-{field}-{dts}"
IsEvents(rows, tk, field) ==
    [k \in 1..Len(rows) |->
        LET dt == fromisoformat(rows[k][field])
        IN [uid |-> tk \o "-" \o field \o "-" \o StrfYmd(dt),
            summary |-> IsTitle(tk, field),
            dtstart |-> StrfYmd(dt),
            dtend |-> StrfYmd(NextDay(dt)),
            trigger |-> "PT20H"]]

\* write_ics over the settings t..3
RECURSIVE IsIcsFiles(_, _, _, _, _)
IsIcsFiles(rows, tk, enabled, t, fs) ==
    IF t > Len(IsFields) THEN fs
    ELSE IF IsFields[t] \notin enabled THEN IsIcsFiles(rows, tk, enabled, t + 1, fs)
    ELSE IsIcsFiles(rows, tk, enabled, t + 1,
                    WriteFile(fs, LowerStr(tk) \o "_" \o IsFields[t] \o ".ics",
                              Ics(IsEvents(rows, tk, IsFields[t]))))

write_ics(rows, tk, enabled, fs) == IsIcsFiles(rows, tk, enabled, 1, fs)

IsEnabled == {{"declaration_date", "ex_date", "pay_date"}, {"ex_date"}}

InitIShares ==
    /\ script = "iShareETF_arg"
    /\ cfg \in {[name |-> "ishares", ics |-> e] : e \in IsEnabled}
    /\ lines \in Docs(IsPagePool, MaxIsPages)
    /\ tickers \in {<<t>> : t \in IsTickers}
    /\ ti = 0 /\ pc = "start" /\ result = NoResult /\ files = IdleFiles /\ log = <<>> /\ uids = 0
    /\ workers = <<>>
    /\ IdleFn

\* what parse_dates leaves behind
IsParsed(tk, r) ==
    /\ result' = [st |-> r.st, rows |-> r.rows, tk |-> tk, seg |-> NoSeg]
    /\ IF r.st = "ok" THEN pc' = "parsed" /\ UNCHANGED log
       ELSE pc' = "crashed" /\ log' = Append(log, r.msg)

\* main up to parse_dates: download_pdf, extract_text, parse_dates
IsParse ==
    /\ script = "iShareETF_arg" /\ pc = "start"
    /\ IsParsed(tickers[1], parse_dates(extract_text(lines), tickers[1] \o " "))
    /\ ti' = 1
    /\ UNCHANGED <<script, cfg, lines, tickers, files, uids>>
    /\ UNCHANGED fnVars /\ UNCHANGED workers

\* the rest of main: write_csv, write_ics
IsWrite ==
    /\ script = "iShareETF_arg" /\ pc = "parsed"
    /\ LET tk == tickers[1]
           fs == WriteFile(files, LowerStr(tk) \o "_dates.csv", Csv(result.rows))
       IN files' = write_ics(result.rows, UpperStr(tk), cfg.ics, fs)
    /\ pc' = "done"
    /\ log' = Append(log, "Wrote " \o LowerStr(tickers[1]) \o "_dates.csv")
    /\ UNCHANGED <<script, cfg, lines, tickers, ti, result, uids>>
    /\ UNCHANGED fnVars /\ UNCHANGED workers

NextIShares == IsParse \/ IsWrite

SpecIShares == InitIShares /\ [][NextIShares]_vars

(***************************************************************************)
(* Claims on the ticker match, the label blocks and the emitted dates      *)
(***************************************************************************)
\* the lines of the document the running script reads
DocLines == IF script = "iShareETF_arg" THEN extract_text(lines) ELSE lines

\* tk stands at column i of line s with a word character next to it
InsideLongerToken(s, tk, i) ==
    \/ i > 1 /\ IsWordChar(CharAt(s, i - 1))
    \/ i + Len(tk) <= Len(s) /\ IsWordChar(CharAt(s, i + Len(tk)))

\* tk occurs in the document, in any letter case, and every occurrence is a
\* proper part of a longer token
OnlyInsideLongerTokens(ls, tk) ==
    /\ \E l \in 1..Len(ls) : Occurrences(UpperStr(ls[l]), UpperStr(tk)) # {}
    /\ \A l \in 1..Len(ls) : \A i \in Occurrences(UpperStr(ls[l]), UpperStr(tk)) :
           InsideLongerToken(ls[l], tk, i)

\* C2: in every dialect, when the requested ticker occurs in the document
\* only as a proper substring of longer tokens (prefix or suffix), the
\* extraction does not succeed for it and produces no records.
C2_SubstringTickerYieldsNoRecords ==
    (result.st # "none" /\ OnlyInsideLongerTokens(DocLines, result.tk))
        => (result.st # "ok" /\ result.rows = <<>>)

\* the label scan of the block parse_dates located; NoScan when it located none
ScanOfRun ==
    LET text == extract_text(lines)
        at == RFindText(text, tickers[1] \o " ", Len(text))
    IN IF at.line = 0 THEN NoScan
       ELSE IF PurposeAt(Snippet(text, at)).line = 0 THEN NoScan
       ELSE LabelScan(LocatedBlock(text, tickers[1] \o " "))

\* the recognized D-Mon-YY dates of the sections of one kind, in document order
RECURSIVE SectionDates(_)
SectionDates(blocks) ==
    IF blocks = <<>> THEN <<>> ELSE findall(Head(blocks)) \o SectionDates(Tail(blocks))

AllCalendarDates(toks) == \A k \in 1..Len(toks) : norm(toks[k]).st = "ok"

\* C5: when the declaration, ex/record and pay sections hold different numbers
\* of recognized dates (all of them calendar dates), parse_dates fails with the
\* mismatch error and returns no record.
C5_MismatchedDateCountsRaise ==
    LET d == SectionDates(ScanOfRun.decl_blocks)
        e == SectionDates(ScanOfRun.ex_blocks)
        p == SectionDates(ScanOfRun.pay_blocks)
    IN (/\ script = "iShareETF_arg" /\ result.st # "none"
        /\ ~(Len(d) = Len(e) /\ Len(e) = Len(p))
        /\ AllCalendarDates(d \o e \o p))
           => (/\ result.st = "RuntimeError"
               /\ log = <<MismatchedBlocks>>
               /\ result.rows = <<>>)

\* C6: parse_dates returns at most 3 records, and they are the last three of
\* the declaration/ex/pay triples the sections hold, in document order.
C6_AtMostLastThreeTriples ==
    LET all == BlockRows(ScanOfRun.decl_blocks, ScanOfRun.ex_blocks, ScanOfRun.pay_blocks, 1)
    IN (script = "iShareETF_arg" /\ result.st = "ok")
           => (/\ Len(result.rows) <= 3
               /\ all.st = "ok" => result.rows = LastN(all.rows, 3))

\* a populated date field holds a calendar date, in the format its script writes
IsoDate(str) ==
    /\ Len(str) = 10
    /\ AllDigits(SubSeq(str, 1, 4)) /\ AllDigits(SubSeq(str, 6, 7)) /\ AllDigits(SubSeq(str, 9, 10))
    /\ ValidDate(fromisoformat(str).y, fromisoformat(str).m, fromisoformat(str).d)

RowDatesValid(row) ==
    IF script = "SPDR_ETF_cfg"
    THEN \A c \in 2..5 : Strptime(row[c], 4).ok
    ELSE IF script = "iShareETF_arg"
    THEN \A f \in {"declaration_date", "ex_date", "pay_date"} : IsoDate(row[f])
    ELSE \A f \in {"RecordDate", "ExMinus1", "ExDate", "PayableDate"} : Strptime(row[f], 2).ok

\* C10: every record an extraction emits holds a valid Gregorian calendar date
\* in each of its date fields (record, ex, ex-minus-one, payable, declaration).
C10_RecordsHoldCalendarDates ==
    \A k \in 1..Len(result.rows) : RowDatesValid(result.rows[k])

(***************************************************************************)
(* SPDR: precedence of TICKER_COLUMNS_CONFIG over the GENERATE_SPLIT flags *)
(***************************************************************************)
SplitCsvName(tk, col) == SpdrBase(tk) \o "_" \o Underscored(col) \o ".csv"

\* the columns for which the run has written a split CSV of ticker tk
SplitColumnsWritten(tk) == {SpdrCols[k] : k \in {j \in 1..Len(SpdrCols) : SplitCsvName(tk, SpdrCols[j]) \in DOMAIN files}}

ListedColumns(c, tk) == {c.TICKER_COLUMNS_CONFIG[tk][k] : k \in 1..Len(c.TICKER_COLUMNS_CONFIG[tk])}

\* C11: for a ticker with an entry in TICKER_COLUMNS_CONFIG whose schedule was
\* extracted, a split CSV is written for exactly the columns of the entry,
\* whatever the global GENERATE_SPLIT_* flags are.
C11_ExplicitEntryWins ==
    (/\ script = "SPDR_ETF_cfg" /\ result.st = "ok"
     /\ result.tk \in DOMAIN cfg.TICKER_COLUMNS_CONFIG)
        => SplitColumnsWritten(result.tk) = ListedColumns(cfg, result.tk)

\* C11, the fallback half: a ticker without an entry gets the split CSVs the
\* global GENERATE_SPLIT_* flags select.
C11_NoEntryFallsBackToFlags ==
    (/\ script = "SPDR_ETF_cfg" /\ result.st = "ok"
     /\ result.tk \notin DOMAIN cfg.TICKER_COLUMNS_CONFIG)
        => SplitColumnsWritten(result.tk) = cfg.GENERATE_SPLIT

(***************************************************************************)
(* One worker per ticker: the per-ticker pipelines of a run, interleaved.  *)
(* A pipeline is the body of the ticker loop (extract_segment_by_ticker of *)
(* SPDR_ETF_cfg.py, the loop body of main of VanguardETF_cfg.py), and a    *)
(* step is the code between two of its file writes.                        *)
(***************************************************************************)
SpdrBlockPool ==
    {<<HeaderLine, "SPY", "March 3/14/2025 2/30/2025 13/1/2025", FooterLine>>,
     <<HeaderLine, "BIL", FooterLine>>,
     <<HeaderLine, "SPY", "BIL", FooterLine>>,
     <<HeaderLine, "BIL">>,
     <<"SPY">>}
MaxBlocks == 2

RECURSIVE Flatten(_)
Flatten(blocks) == IF blocks = <<>> THEN <<>> ELSE Head(blocks) \o Flatten(Tail(blocks))

\* the documents of the interleaved SPDR runs: up to MaxBlocks blocks of lines
ParSpdrDocs == {Flatten(b) : b \in Docs(SpdrBlockPool, MaxBlocks)}

ParScripts == {"SPDR_ETF_cfg", "VanguardETF_cfg"}

NewWorker(tk) == [tk |-> tk, pc |-> "extract", rows |-> <<>>, wrote |-> {}]

InitParallel ==
    /\ script \in ParScripts
    /\ IF script = "SPDR_ETF_cfg"
       THEN /\ cfg \in {SourceConfig, AllOnConfig}
            /\ lines \in ParSpdrDocs
            /\ tickers \in {<<"BIL", "SPY">>}
       ELSE /\ cfg \in {[name |-> "vanguard", ics |-> e] : e \in VgEnabled(script)}
            /\ lines \in Docs(VgLinePool, MaxVgLines)
            /\ tickers \in {<<"VOO", "VPLS">>}
    /\ ti = 0 /\ pc = "start" /\ result = NoResult /\ files = IdleFiles /\ log = <<>> /\ uids = 0
    /\ workers = [w \in 1..Len(tickers) |-> NewWorker(tickers[w])]
    /\ IdleFn

\* worker w moves to position p, holding rows and having written the files of names
Moved(w, p, rows, names) ==
    workers' = [workers EXCEPT ![w] = [tk |-> @.tk, pc |-> p, rows |-> rows, wrote |-> @.wrote \cup names]]

At(w, p) == pc = "loop" /\ workers[w].pc = p

\* extract_segment_by_ticker up to its first write: locate the segment, collect the rows
ParSpdrRows(w, r) ==
    /\ Moved(w, IF r.st = "ok" THEN "full_csv" ELSE "crashed", r.rows, {})
    /\ UNCHANGED log

ParSpdrLocated(w, loc) ==
    IF loc.st # "ok"
    THEN /\ Moved(w, "done", <<>>, {})
         /\ log' = Append(log, Diagnostic(loc.st, workers[w].tk, loc.seg))
    ELSE ParSpdrRows(w, SpdrRows(loc.seg.segment, 2))

ParSpdrExtract(w) ==
    /\ script = "SPDR_ETF_cfg" /\ At(w, "extract")
    /\ ParSpdrLocated(w, LocateSegment(lines, workers[w].tk))
    /\ UNCHANGED <<script, cfg, lines, tickers, ti, pc, result, files, uids>>
    /\ UNCHANGED fnVars

\* if GENERATE_FULL_CSV: write_csv(rows, OUTPUT_CSV)
ParSpdrFullCsv(w) ==
    /\ script = "SPDR_ETF_cfg" /\ At(w, "full_csv")
    /\ files' = FullCsvStep(cfg, workers[w].rows, files)
    /\ Moved(w, "splits", workers[w].rows, DOMAIN FullCsvStep(cfg, workers[w].rows, IdleFiles))
    /\ UNCHANGED <<script, cfg, lines, tickers, ti, pc, result, log, uids>>
    /\ UNCHANGED fnVars

\* if any split flag: write_ticker_splits(rows, base, cols)
ParSpdrSplitsOf(w, rows, tk, cols) ==
    /\ files' = SplitStep(cfg, rows, tk, cols, files)
    /\ Moved(w, "ics", rows, DOMAIN SplitStep(cfg, rows, tk, cols, IdleFiles))

ParSpdrSplits(w) ==
    /\ script = "SPDR_ETF_cfg" /\ At(w, "splits")
    /\ ParSpdrSplitsOf(w, workers[w].rows, workers[w].tk, ColsFor(cfg, workers[w].tk))
    /\ UNCHANGED <<script, cfg, lines, tickers, ti, pc, result, log, uids>>
    /\ UNCHANGED fnVars

\* if any ICS flag: generate_ics_from_rows(rows, base, cols, ticker)
ParSpdrIcsOf(w, rows, i) ==
    /\ files' = i.files
    /\ uids' = i.uids
    /\ Moved(w, "done", rows, {f \in DOMAIN i.files : f \notin DOMAIN files \/ i.files[f] # files[f]})

ParSpdrIcs(w) ==
    /\ script = "SPDR_ETF_cfg" /\ At(w, "ics")
    /\ ParSpdrIcsOf(w, workers[w].rows,
                    IcsStep(cfg, workers[w].rows, workers[w].tk, ColsFor(cfg, workers[w].tk), files, uids))
    /\ UNCHANGED <<script, cfg, lines, tickers, ti, pc, result, log>>
    /\ UNCHANGED fnVars

\* main of VanguardETF_cfg.py: sched = extract_schedule_for_ticker(pdf, ticker)
ParVgExtracted(w, r) ==
    IF r.st # "ok" THEN Moved(w, "crashed", <<>>, {}) /\ UNCHANGED log
    ELSE IF r.rows = <<>>
    THEN /\ Moved(w, "done", <<>>, {})
         /\ log' = Append(log, "No records found for ticker " \o workers[w].tk)
    ELSE Moved(w, "save_csv", r.rows, {}) /\ UNCHANGED log

ParVgExtract(w) ==
    /\ script = "VanguardETF_cfg" /\ At(w, "extract")
    /\ ParVgExtracted(w, extract_schedule_for_ticker(script, lines, workers[w].tk))
    /\ UNCHANGED <<script, cfg, lines, tickers, ti, pc, result, files, uids>>
    /\ UNCHANGED fnVars

\* save_to_csv(sched, output_csv)
ParVgSaveCsv(w) ==
    /\ script = "VanguardETF_cfg" /\ At(w, "save_csv")
    /\ files' = WriteFile(files, VgCsvName(workers[w].tk), Csv(workers[w].rows))
    /\ Moved(w, "ics", workers[w].rows, {VgCsvName(workers[w].tk)})
    /\ UNCHANGED <<script, cfg, lines, tickers, ti, pc, result, log, uids>>
    /\ UNCHANGED fnVars

\* csv_to_separate_ics(output_csv, ticker): the rows are read back from the CSV file
ParVgIcsOf(w, i) ==
    /\ files' = i.files
    /\ uids' = i.uids
    /\ Moved(w, IF i.st = "ok" THEN "done" ELSE "crashed", workers[w].rows,
             {f \in DOMAIN i.files : f \notin DOMAIN files \/ i.files[f] # files[f]})

ParVgIcs(w) ==
    /\ script = "VanguardETF_cfg" /\ At(w, "ics")
    /\ ParVgIcsOf(w, csv_to_separate_ics(script, cfg.ics, files[VgCsvName(workers[w].tk)].rows,
                                         workers[w].tk, files, uids))
    /\ UNCHANGED <<script, cfg, lines, tickers, ti, pc, result, log>>
    /\ UNCHANGED fnVars

Finished(w) == workers[w].pc \in {"done", "crashed"}

\* every worker has ended: the run is over
ParJoin ==
    /\ pc = "loop" /\ workers # <<>>
    /\ \A w \in DOMAIN workers : Finished(w)
    /\ pc' = "done"
    /\ UNCHANGED <<script, cfg, lines, tickers, ti, result, files, log, uids, workers>>
    /\ UNCHANGED fnVars

NextParallel ==
    \/ SpdrStart
    \/ VgStart
    \/ \E w \in DOMAIN workers : ParSpdrExtract(w)
    \/ \E w \in DOMAIN workers : ParSpdrFullCsv(w)
    \/ \E w \in DOMAIN workers : ParSpdrSplits(w)
    \/ \E w \in DOMAIN workers : ParSpdrIcs(w)
    \/ \E w \in DOMAIN workers : ParVgExtract(w)
    \/ \E w \in DOMAIN workers : ParVgSaveCsv(w)
    \/ \E w \in DOMAIN workers : ParVgIcs(w)
    \/ ParJoin

SpecParallel == InitParallel /\ [][NextParallel]_vars

\* the files the pipeline of ticker tk writes when it is the only one of the run
AloneVgFiles(tk, r) ==
    IF r.st # "ok" \/ r.rows = <<>> THEN IdleFiles
    ELSE csv_to_separate_ics(script, cfg.ics, r.rows, tk,
                             WriteFile(IdleFiles, VgCsvName(tk), Csv(r.rows)), 0).files

AloneFiles(tk) ==
    IF script = "SPDR_ETF_cfg" THEN extract_segment_by_ticker(cfg, lines, tk, IdleFiles, 0).files
    ELSE AloneVgFiles(tk, extract_schedule_for_ticker(script, lines, tk))

\* a file's content without the uuid4() values of its events, which are random
SansUid(content) ==
    IF content.kind # "ics" THEN content
    ELSE [kind |-> "ics", events |-> [k \in DOMAIN content.events |-> [content.events[k] EXCEPT !.uid = 0]]]

SameOutputsAsAlone(fs) ==
    \A f \in DOMAIN fs : f \in DOMAIN files /\ SansUid(files[f]) = SansUid(fs[f])

NoSharedLocation ==
    \A v \in DOMAIN workers : \A w \in DOMAIN workers : v # w => workers[v].wrote \cap workers[w].wrote = {}

RunJoined == pc = "done" /\ workers # <<>>

\* C12: in a run with one worker per ticker, under every interleaving, no
\* output file is written by the pipelines of two tickers, and once the run is
\* over the files of each ticker are those its pipeline writes when run alone.
C12_PipelinesIndependent ==
    /\ NoSharedLocation
    /\ RunJoined => \A w \in DOMAIN workers : SameOutputsAsAlone(AloneFiles(workers[w].tk))

\* C12 for the Vanguard script alone: its pipelines write only files named after the ticker.
C12_VanguardPipelinesIndependent ==
    script = "VanguardETF_cfg" => C12_PipelinesIndependent

\* C12, the order dependence: a joined SPDR run in which two tickers with
\* different rows both wrote the full CSV.
C12_LastWriterWins ==
    /\ script = "SPDR_ETF_cfg" /\ RunJoined
    /\ OUTPUT_CSV \in workers[1].wrote \cap workers[2].wrote
    /\ workers[1].rows # workers[2].rows

(***************************************************************************)
(* The event identifiers of the ICS files                                  *)
(***************************************************************************)
IcsFilesWritten == {f \in DOMAIN files : files[f].kind = "ics"}

DistinctUids(events) ==
    \A i \in DOMAIN events : \A j \in DOMAIN events : i # j => events[i].uid # events[j].uid

\* C13: in every ICS file a script has written, the UID values of the VEVENTs
\* are pairwise distinct, also when two records have the same date in the
\* field the file is made from.
C13_UidsDistinctWithinFile ==
    \A f \in IcsFilesWritten : DistinctUids(files[f].events)

\* C13 for the scripts that draw uuid.uuid4() for every event
C13_Uuid4ScriptsDistinct ==
    script # "iShareETF_arg" => C13_UidsDistinctWithinFile

\* C13, the case of the claim: an ICS file holds two events with the same date
C13_SameDateTwice ==
    \E f \in IcsFilesWritten : \E i \in DOMAIN files[f].events : \E j \in DOMAIN files[f].events :
        i # j /\ files[f].events[i].dtstart = files[f].events[j].dtstart

(***************************************************************************)
(* normalize_date on its own output                                        *)
(***************************************************************************)
\* the fields month, day, year of a token of the dialects M/D/YY, M/D/YYYY, YYYY/M/D
DialectFields(f) ==
    IF Len(f[1]) = 4 THEN [m |-> f[2], d |-> f[3], y |-> f[1]] ELSE [m |-> f[1], d |-> f[2], y |-> f[3]]

ShortField(s) == Len(s) \in {1, 2} /\ AllDigits(s)

CalendarFields(g) ==
    /\ ShortField(g.m) /\ ShortField(g.d)
    /\ Len(g.y) \in {2, 4} /\ AllDigits(g.y)
    /\ ValidDate(IF Len(g.y) = 4 THEN ToInt(g.y) ELSE PivotYear(ToInt(g.y)), ToInt(g.m), ToInt(g.d))

\* a valid date token of one of the three dialects, separators / or -
ValidDateToken(tok) ==
    /\ Len(SplitSep(tok)) = 3
    /\ \A i \in 1..3 : Len(SplitSep(tok)[i]) > 0
    /\ (Len(SplitSep(tok)[1]) = 4 => AllDigits(SplitSep(tok)[1]))
    /\ CalendarFields(DialectFields(SplitSep(tok)))

\* C14: for every valid date token, normalize_date accepts the string it
\* returned for the token and returns that same string again.
C14_NormalizeIdempotent ==
    (fn = "normalize_date twice" /\ ValidDateToken(arg)) => (ret.st = "ok" /\ ret = normalize_date(arg))

\* C14: a year-first token with a leading zero, normalized twice
C14_Witness ==
    /\ fn = "normalize_date twice" /\ arg = "2025-03-12" /\ ValidDateToken(arg)
    /\ ret = Ok("3/12/25")

(***************************************************************************)
(* Pure-function harness: the label scan of parse_dates on a block         *)
(***************************************************************************)
ScanLinePool ==
    {"DECLARATION DATE: 1-Dec-25",
     "EX-DATE/RECORD DATE: 2-Dec-25",
     "PAY DATE: 5-Dec-25",
     "PAY DATE:",
     "18-Dec-25",
     "",
     "   ",
     " PAY DATE: 1-Jan-26"}
MaxScanLines == 4

InitScan ==
    /\ fn = "label_scan"
    /\ arg \in Docs(ScanLinePool, MaxScanLines)
    /\ ret = NoRet
    /\ IdleRun

\* the loop of parse_dates over the lines of the block, and the flush after it
ApplyScan ==
    /\ fn = "label_scan"
    /\ ret.st = "none"
    /\ ret' = Ok(LabelScan(arg))
    /\ UNCHANGED <<fn, arg>>
    /\ UNCHANGED runVars

NextScan == ApplyScan

SpecScan == InitScan /\ [][NextScan]_vars

\* the lines of the block that start with a section label
IsLabelLine(line) ==
    StartsWith(line, DECL_LABEL) \/ StartsWith(line, EX_LABEL) \/ StartsWith(line, PAY_LABEL)

LabelLines(block, label) == {i \in 1..Len(block) : StartsWith(block[i], label)}

\* the line that closes the section opened at line i: the next label line, or the end
SectionEnd(block, i) ==
    SetMin({j \in (i + 1)..Len(block) : IsLabelLine(block[j])} \cup {Len(block) + 1})

\* the k-th smallest element of a set of line numbers
Nth(S, k) == CHOOSE i \in S : Cardinality({j \in S : j <= i}) = k

\* the text of the section opened at line i: what follows the colon, then the
\* non-blank lines up to the closing line
SectionText(block, i) ==
    JoinSp(<<AfterColon(block[i])>>
           \o SelectSeq(SubSeq(block, i + 1, SectionEnd(block, i) - 1), NonBlank))

\* the sections of one label, in document order: one per line starting with the label
SectionsOf(block, label) ==
    [k \in 1..Cardinality(LabelLines(block, label)) |-> SectionText(block, Nth(LabelLines(block, label), k))]

\* C15: the scan discards the lines before the first label, every label line
\* closes the open section and opens one of its own type, every non-blank
\* unlabeled line goes to the open section only; the sections collected for a
\* label are as many as the lines starting with it, in document order.
C15_ScanCollectsSections ==
    (fn = "label_scan" /\ ret.st = "ok") =>
        /\ ret.val.decl_blocks = SectionsOf(arg, DECL_LABEL)
        /\ ret.val.ex_blocks = SectionsOf(arg, EX_LABEL)
        /\ ret.val.pay_blocks = SectionsOf(arg, PAY_LABEL)
        /\ Len(ret.val.decl_blocks) = Cardinality(LabelLines(arg, DECL_LABEL))
        /\ Len(ret.val.ex_blocks) = Cardinality(LabelLines(arg, EX_LABEL))
        /\ Len(ret.val.pay_blocks) = Cardinality(LabelLines(arg, PAY_LABEL))

\* C15: a block with a line before the first label, a continuation line, a
\* blank line inside a section and a label with nothing after it
C15_Witness ==
    /\ fn = "label_scan" /\ ret.st = "ok"
    /\ arg = <<"18-Dec-25", "PAY DATE:", "", "18-Dec-25">>
    /\ ret.val.pay_blocks = <<" 18-Dec-25">>
    /\ ret.val.decl_blocks = <<>> /\ ret.val.ex_blocks = <<>>

(***************************************************************************)
(* SPDR: the shape of the schedule of a ticker                             *)
(***************************************************************************)
\* the lines of the segment after its header that match MONTH_RE or FOOTER_RE
IsRowLine(ln) == MONTH_RE(ln).ok \/ FOOTER_RE(ln).ok

RowLines(segment) == SelectSeq(SubSeq(segment, 2, Len(segment)), IsRowLine)

MonthNames == {MONTH_NAMES[k] : k \in 1..Len(MONTH_NAMES)}

\* the record comes from the line: its label leads the line, the three date
\* tokens after the label are its ex, record and payable dates
RowOfRowLine(row, ln) ==
    /\ StartsWith(ln, row[1])
    /\ row[2] = Split(SubSeq(ln, Len(row[1]) + 1, Len(ln)))[1]
    /\ row[4] = Split(SubSeq(ln, Len(row[1]) + 1, Len(ln)))[2]
    /\ row[5] = Split(SubSeq(ln, Len(row[1]) + 1, Len(ln)))[3]

\* C16: a schedule extract_segment_by_ticker produces holds exactly one
\* 'Potential Excise Distribution' record, the last one; the records before it
\* are month rows in document order, one per matching line of the segment, and
\* the lines matching neither pattern give no record.
C16_OneExciseRecordLast ==
    (script = "SPDR_ETF_cfg" /\ result.st = "ok") =>
        /\ Len(result.rows) >= 1
        /\ result.rows[Len(result.rows)][1] = EXCISE_LABEL
        /\ \A k \in 1..(Len(result.rows) - 1) : result.rows[k][1] \in MonthNames
        /\ Len(result.rows) = Len(RowLines(result.seg.segment))
        /\ \A k \in 1..Len(result.rows) : RowOfRowLine(result.rows[k], RowLines(result.seg.segment)[k])

\* C16: a schedule of two month rows out of calendar order, a line that is no
\* row between them, and the excise record
C16_Witness ==
    /\ script = "SPDR_ETF_cfg" /\ result.st = "ok"
    /\ result.seg.segment = <<HeaderLine, "June 6/2/2025 6/3/2025 6/5/2025", "SPY",
                              "March 3/14/2025 3/17/2025 3/20/2025", FooterLine>>
    /\ Len(result.rows) = 3
    /\ result.rows[1][1] = "June" /\ result.rows[2][1] = "March" /\ result.rows[3][1] = EXCISE_LABEL


====
